---- MODULE Spec2Model ----
(***************************************************************************)
(* Model of the Jira export automation: the orchestrator of main.py        *)
(* (JiraAutomationWorkflow), the browser lifecycle of WebDriverManager,    *)
(* the authentication sequence of JumpCloudAuth, the query/export sequence *)
(* of JiraOperations and the interaction primitives of SeleniumHelpers.    *)
(* The browser and the pages are the environment: every primitive draws    *)
(* the page's behaviour (element found, stale, timed out, ...) with \E.    *)
(***************************************************************************)
EXTENDS Integers, Sequences, FiniteSets, TLC

\* ------------------------------------------------------------------ bounds
\* Largest `retries` argument explored for safe_click on its own.
MaxRetries == 3
\* Number of run invocations explored on one workflow object.
MaxRuns == 2
\* Number of find_and_rename_latest_file calls explored on one directory,
\* and of switch_to_new_tab calls on one browser.
MaxCalls == 2
\* Number of windows the browser may have open.
MaxWindows == 4
\* Polls of the window count that fit in the timeout of switch_to_new_tab.
MaxPolls == 3

\* ------------------------------------------------------- program constants
\* safe_click(driver, by, value, timeout=20, retries=3)
DefaultRetries == 3
DefaultClickTimeout == 20
\* _ensure_jql_mode: safe_click(..., timeout=5)
JqlModeTimeout == 5
\* _handle_mfa: WebDriverWait(self.driver, 10)
MfaProbeTimeout == 10
\* settings.MFA_TIMEOUT
MFA_TIMEOUT == 60
\* find_and_rename_latest_file(download_dir, new_name_prefix, wait_seconds=15)
DefaultWait == 15
\* _handle_downloaded_file: time.sleep(15)
DownloadSleep == 15

\* self.driver = None
None == 0

VARIABLES
    mode,        \* run mode of the current run: "none", "full", "export-only"
    pc,          \* position of the orchestrator inside the run
    runs,        \* number of runs that have returned
    wfDriver,    \* JiraAutomationWorkflow.driver
    mgrDriver,   \* WebDriverManager.driver
    created,     \* number of browser sessions created so far (ids 1..created)
    base,        \* value of `created` when the current run started
    live,        \* sessions whose browser has not been ended
    quitCalled,  \* sessions on which driver.quit() was invoked
    trace,       \* workflow steps started in the current run, in order
    cleanupLog,  \* what the finalizer did in the current run, in order
    errors,      \* exceptions raised by primitives in the current run
    loginResult, \* return value of JumpCloudAuth.login(): "none","True","False"
    mfa,         \* what _handle_mfa observed: "none","absent","pushed","error"
    jqlMode,     \* what _ensure_jql_mode observed: "none","switched", or the error it swallowed
    exportResult,\* execute_jql_and_export: "none", "path", "raised"
    exc,         \* exception in flight in the run ("none" when there is none)
    pending,     \* value the run is about to report, fixed before the finally block
    result,      \* what the last run reported to its caller
    clickIn,     \* arguments and page script of the last safe_click call
    lastClick,   \* what the last safe_click call did
    dirExists,   \* the download directory exists and is a directory
    dir,         \* entries of the download directory: [name, mtime, isFile]
    now,         \* the wall clock, in seconds since 2024-01-01T00:00:00
    platform,    \* "posix" or "nt": what Path.rename does to an existing target
    detIn,       \* arguments of the last find_and_rename_latest_file call
    detOut,      \* what that call handed to its caller
    detCause,    \* what happened inside it: "none","nofile","renamed","rename_error"
    dir0,        \* the directory entries as that call found them
    purgeIn,     \* arguments of the last clean_old_files call
    purgeOut,    \* its return value, the entries it deleted, whether it caught an error
    windows,     \* window handles of the browser, oldest first
    focus,       \* the handle that has the driver's focus
    tabIn,       \* window handles and focus when switch_to_new_tab was called
    tabPolls,    \* polls of the window count made by the current wait
    tabOut,      \* what switch_to_new_tab returned or raised, last count seen
    config,      \* the four required settings, as loaded from the environment
    validation,  \* outcome of Settings.validate_credentials
    exitCode,    \* process exit code (-1 while the process runs)
    waitLog,     \* explicit waits made in the current run: [step, timeout, signal]
    keysIn,      \* arguments and page behaviour of the last safe_send_keys call
    keysOut,     \* what that call did to the element, in order, and its outcome
    stIn,        \* arguments of the running wait_for_file_stable call
    st           \* its locals, the samples it took and what it returned

vars == <<mode, pc, runs, wfDriver, mgrDriver, created, base, live, quitCalled, trace,
          cleanupLog, errors, loginResult, mfa, jqlMode, exportResult, exc,
          pending, result, clickIn, lastClick, dirExists, dir, now, platform,
          detIn, detOut, detCause, dir0, purgeIn, purgeOut, windows, focus,
          tabIn, tabPolls, tabOut, config, validation, exitCode, waitLog,
          keysIn, keysOut, stIn, st>>

\* Variables of the file system, of the browser windows, of the
\* configuration and of the process, which the steps of a run that do not
\* touch them leave alone.
fsVars  == <<dirExists, dir, now, platform, detIn, detOut, detCause, dir0,
             purgeIn, purgeOut>>
tabVars == <<windows, focus, tabIn, tabPolls, tabOut>>
cfgVars == <<config, validation>>
probeVars == <<keysIn, keysOut, stIn, st>>
envRest == <<fsVars, tabVars, cfgVars, probeVars, exitCode>>
envVars == <<envRest, waitLog>>

\* ------------------------------------------------- interaction primitives
\* What the page can do to one attempt of safe_click:
\*   "ok"      element became clickable, scroll and click scripts ran
\*   "stale"   element was resolved, then a script hit StaleElementReferenceException
\*   "timeout" wait.until(element_to_be_clickable) ran out of time
\*   "error"   any other WebDriverException (not caught by safe_click)
ClickOutcomes == {"ok", "stale", "timeout", "error"}

NoClick == [result |-> "none", attempts |-> 0, waits |-> 0, blocked |-> 0,
            resolved |-> <<>>, clicked |-> 0]

NoClickIn == [retries |-> 0, timeout |-> 0, outs |-> <<>>]

\* safe_click as it would be with the element resolved once, before the
\* loop: every attempt acts on the handle of the first resolution.
RECURSIVE safe_click_loop_reuse(_, _, _, _, _)
safe_click_loop_reuse(attempt, outs, timeout, retries, acc) ==
    IF attempt >= retries
    THEN [acc EXCEPT !.result = "ClickFailed", !.attempts = attempt]
    ELSE LET o       == outs[attempt + 1]
             element == 1
             waited  == [acc EXCEPT !.waits = IF attempt = 0 THEN 1 ELSE @,
                                    !.attempts = attempt + 1]
             found   == [waited EXCEPT !.resolved = <<element>>]
         IN  CASE o = "timeout" ->
                    [waited EXCEPT !.result = "TimeoutException",
                                   !.blocked = @ + timeout]
               [] o = "error" ->
                    [found EXCEPT !.result = "WebDriverException"]
               [] o = "stale" ->
                    safe_click_loop_reuse(attempt + 1, outs, timeout, retries,
                                          found)
               [] OTHER ->
                    [found EXCEPT !.result = "ok", !.clicked = element]

\* safe_click as it would be with TimeoutException handled like a stale
\* element: the attempt is counted and the loop goes on.
RECURSIVE safe_click_loop_retry_timeout(_, _, _, _, _)
safe_click_loop_retry_timeout(attempt, outs, timeout, retries, acc) ==
    IF attempt >= retries
    THEN [acc EXCEPT !.result = "ClickFailed", !.attempts = attempt]
    ELSE LET o       == outs[attempt + 1]
             element == attempt + 1
             waited  == [acc EXCEPT !.waits = @ + 1, !.attempts = attempt + 1]
         IN  CASE o = "timeout" ->
                    safe_click_loop_retry_timeout(attempt + 1, outs, timeout,
                        retries, [waited EXCEPT !.blocked = @ + timeout])
               [] o = "error" ->
                    [waited EXCEPT !.result = "WebDriverException",
                                   !.resolved = Append(@, element)]
               [] o = "stale" ->
                    safe_click_loop_retry_timeout(attempt + 1, outs, timeout,
                        retries, [waited EXCEPT !.resolved = Append(@, element)])
               [] OTHER ->
                    [waited EXCEPT !.result = "ok",
                                   !.resolved = Append(@, element),
                                   !.clicked = element]

\* The loop of safe_click from attempt number `attempt` (0-based, as range()).
\* outs[i] is the page's behaviour during the i-th attempt; `acc` carries the
\* handles resolved so far, the waits made and the time spent in waits that
\* ran to their timeout. Every resolution returns a new handle: the handle
\* resolved by the i-th wait is i.
RECURSIVE safe_click_loop(_, _, _, _, _)
safe_click_loop(attempt, outs, timeout, retries, acc) ==
    IF attempt >= retries
    THEN [acc EXCEPT !.result = "ClickFailed", !.attempts = attempt]
    ELSE LET o       == outs[attempt + 1]
             element == attempt + 1
             waited  == [acc EXCEPT !.waits = @ + 1, !.attempts = attempt + 1]
         IN  CASE o = "timeout" ->
                    [waited EXCEPT !.result = "TimeoutException",
                                   !.blocked = @ + timeout]
               [] o = "error" ->
                    [waited EXCEPT !.result = "WebDriverException",
                                   !.resolved = Append(@, element)]
               [] o = "stale" ->
                    safe_click_loop(attempt + 1, outs, timeout, retries,
                        [waited EXCEPT !.resolved = Append(@, element)])
               [] OTHER ->
                    [waited EXCEPT !.result = "ok",
                                   !.resolved = Append(@, element),
                                   !.clicked = element]

\* safe_click as it would be without the `raise Exception` that follows
\* the loop: once the attempts are used up it returns normally.
safe_click_silent(outs, timeout, retries) ==
    LET r == safe_click_loop(0, outs, timeout, retries, NoClick)
    IN  IF r.result = "ClickFailed" THEN [r EXCEPT !.result = "ok"] ELSE r

safe_click(outs, timeout, retries) ==
    safe_click_loop(0, outs, timeout, retries, NoClick)

\* Page scripts for a call with `retries` attempts.
ClickScripts(retries) == [1..retries -> ClickOutcomes]

\* The page scripts of a call inside a run: safe_click reads a script up to
\* the first outcome that is not "stale", so one script stands for all that
\* agree with it up to there (what follows is "ok").
PageScripts(retries) ==
    {s \in ClickScripts(retries) :
        \A i \in 1..retries :
            (\E j \in 1..(i - 1) : s[j] # "stale") => s[i] = "ok"}

\* safe_send_keys: "ok", "timeout" (never visible) or "error" (another
\* WebDriverException from click()/send_keys(), which is not caught).
SendKeysOutcomes == {"ok", "timeout", "error"}

safe_send_keys(o) ==
    CASE o = "timeout" -> "TimeoutException"
      [] o = "error"   -> "WebDriverException"
      [] OTHER         -> "ok"

\* Default timeout of wait_for_page_load, in seconds.
PageLoadTimeout == 30

\* wait_for_page_load as it would be without its `except TimeoutException`.
wait_for_page_load_raises(ready) ==
    IF ready
    THEN [signal |-> "complete", raised |-> "none"]
    ELSE [signal |-> "timeout", raised |-> "TimeoutException"]

\* wait_for_page_load: waits until document.readyState is "complete"; the
\* TimeoutException of the wait is caught and logged, and the function
\* returns normally. `ready` tells whether the page became complete in time.
wait_for_page_load(ready) ==
    IF ready
    THEN [signal |-> "complete", raised |-> "none"]
    ELSE [signal |-> "timeout", raised |-> "none"]

\* The entry an explicit wait leaves in the log of waits of the run.
Waited(s, timeout, signal) ==
    Append(waitLog, [step |-> s, timeout |-> timeout, signal |-> signal])

\* ------------------------------------------------------------ file names
\* A file name is the sequence of its characters.
DotCrdownload == <<".", "c", "r", "d", "o", "w", "n", "l", "o", "a", "d">>

\* The value None where a path is expected.
NoPath == <<>>

\* str.endswith
EndsWith(name, suffix) ==
    /\ Len(name) >= Len(suffix)
    /\ SubSeq(name, Len(name) - Len(suffix) + 1, Len(name)) = suffix

\* str.rfind('.'): 0-based index of the last dot, -1 without a dot.
RFindDot(name) ==
    LET dots == {i \in DOMAIN name : name[i] = "."}
    IN  IF dots = {} THEN -1
        ELSE (CHOOSE i \in dots : \A j \in dots : j <= i) - 1

\* PurePath.suffix: the last dot and what follows it, unless that dot is
\* the first or the last character of the name.
Suffix(name) ==
    LET i == RFindDot(name)
    IN  IF 0 < i /\ i < Len(name) - 1
        THEN SubSeq(name, i + 1, Len(name))
        ELSE <<>>

DigitChars == <<"0", "1", "2", "3", "4", "5", "6", "7", "8", "9">>

\* %m, %d, %H, %M, %S: two digits, zero padded.
Pad2(n) == <<DigitChars[((n \div 10) % 10) + 1], DigitChars[(n % 10) + 1]>>

\* %Y: four digits.
Pad4(n) == Pad2(n \div 100) \o Pad2(n % 100)

\* datetime.now().strftime("%Y-%m-%d_%H-%M-%S") for a clock of t seconds
\* since 2024-01-01T00:00:00 (the clock stays inside January 2024).
strftime(t) ==
    Pad4(2024) \o <<"-">> \o Pad2(1) \o <<"-">> \o Pad2(1 + (t \div 86400))
    \o <<"_">> \o Pad2((t % 86400) \div 3600)
    \o <<"-">> \o Pad2((t % 3600) \div 60)
    \o <<"-">> \o Pad2(t % 60)

\* f"{new_name_prefix}_{timestamp}{file_extension}"
new_filename(prefix, t, name) ==
    prefix \o <<"_">> \o strftime(t) \o Suffix(name)

\* --------------------------------------------------- download detector
\* The regular files of the folder, the .crdownload ones included.
Candidates_with_partial(d) ==
    {g \in d : g.isFile}

\* find_latest_file: the regular files of the folder without the
\* .crdownload ones.
Candidates(d) ==
    {f \in {g \in d : g.isFile} : ~EndsWith(f.name, DotCrdownload)}

\* find_latest_file as it would be if it fell back on the downloads in
\* progress when nothing else is there.
find_latest_file_fallback(exists, d) ==
    LET files == IF Candidates(d) # {} THEN Candidates(d)
                 ELSE {g \in d : g.isFile}
    IN  IF ~exists
        THEN {}
        ELSE {f \in files : \A g \in files : g.mtime <= f.mtime}

\* find_latest_file: the entries max() may return (the first of the
\* greatest modification time in the order of iterdir(), which is any
\* order); empty when the function returns None.
find_latest_file(exists, d) ==
    IF ~exists
    THEN {}
    ELSE {f \in Candidates(d) : \A g \in Candidates(d) : g.mtime <= f.mtime}

\* Path.rename(target) of entry f in directory d. `fate` is what the file
\* system does: "ok", or "vanished" when the file disappeared after it was
\* found. An existing target file is replaced on posix and is an error on
\* nt; an existing target directory is an error. Gives the new directory
\* and whether OSError was raised.
rename(d, f, target, fate, plat) ==
    LET others == {g \in d : g.name = target /\ g # f}
    IN  IF fate = "vanished"
        THEN [dir |-> d \ {f}, error |-> TRUE]
        ELSE IF \E g \in others : ~g.isFile \/ plat = "nt"
        THEN [dir |-> d, error |-> TRUE]
        ELSE [dir |-> ((d \ others) \ {f}) \cup {[f EXCEPT !.name = target]},
              error |-> FALSE]

NoDetIn    == [prefix |-> <<>>, wait |-> 0, n |-> 0]
NoDetOut   == [ret |-> NoPath, raised |-> "none"]
NoDetCause == [what |-> "none", picked |-> NoPath, target |-> NoPath]

\* find_and_rename_latest_file(download_dir, new_name_prefix, wait_seconds)
\* on directory entries d (`exists`: the directory is there): sleep (the clock advances by `elapsed`), find the
\* latest file, build the new name from the clock, rename. Every exception
\* of the try block is caught and turned into the return value None, as is
\* an empty search.
find_and_rename_latest_file(exists, d, prefix, wait, elapsed) ==
    LET t      == now + elapsed
        latest == find_latest_file(exists, d)
    IN  /\ now' = t
        /\ detIn' = [prefix |-> prefix, wait |-> wait, n |-> detIn.n + 1]
        /\ dir0' = d
        /\ IF latest = {}
           THEN /\ dir' = d
                /\ detOut' = [ret |-> NoPath, raised |-> "none"]
                /\ detCause' = [what |-> "nofile", picked |-> NoPath,
                                target |-> NoPath]
           ELSE \E latest_file \in latest, fate \in {"ok", "vanished"} :
                  LET target == new_filename(prefix, t, latest_file.name)
                      r      == rename(d, latest_file, target, fate, platform)
                  IN  /\ dir' = r.dir
                      /\ detOut' = [ret |-> IF r.error THEN NoPath ELSE target,
                                    raised |-> "none"]
                      /\ detCause' = [what |-> IF r.error THEN "rename_error"
                                               ELSE "renamed",
                                      picked |-> latest_file.name,
                                      target |-> target]

\* 2024-01-15T09:30:00 on the clock.
Clock0930 == 14 * 86400 + 9 * 3600 + 30 * 60

Platforms == {"posix", "nt"}

\* File names of the download directory: a finished export, a download in
\* progress, a dot file, a subdirectory, and the file the browser writes.
NameA   == <<"a", ".", "c", "s", "v">>
NameB   == <<"b", ".", "c", "s", "v">> \o DotCrdownload
NameD   == <<".", "d">>
NameSub == <<"s", "u", "b">>
NameNew == <<"n", ".", "c", "s", "v">>

\* "Jira_Report", the prefix _handle_downloaded_file passes.
JiraReport == <<"J", "i", "r", "a", "_", "R", "e", "p", "o", "r", "t">>

\* The four required settings: each is unset (None), empty, or has a value.
RequiredVars == <<"JC_USERNAME", "JC_PASSWORD", "JIRA_SEARCH_URL", "JQL_QUERY">>

ValidConfig == [i \in DOMAIN RequiredVars |-> "value"]

\* os.getenv gives None for a variable that is not set, else its string.
ConfigValues == {"None", "", "value"}

Configs == [DOMAIN RequiredVars -> ConfigValues]

\* `not var_value`
Falsy(v) == v \in {"None", ""}

RECURSIVE missing_from(_, _)
missing_from(cfg, i) ==
    IF i > Len(RequiredVars) THEN <<>>
    ELSE (IF Falsy(cfg[i]) THEN <<RequiredVars[i]>> ELSE <<>>)
         \o missing_from(cfg, i + 1)

\* validate_credentials as it would be if it raised at the first variable
\* found missing.
validate_credentials_first(cfg) ==
    LET absent == {i \in DOMAIN RequiredVars : Falsy(cfg[i])}
    IN  IF absent = {} THEN [raised |-> FALSE, missing |-> <<>>]
        ELSE [raised |-> TRUE,
              missing |-> <<RequiredVars[CHOOSE i \in absent :
                                           \A k \in absent : i <= k]>>]

\* Settings.validate_credentials: the names of the falsy variables are
\* collected in the order of required_vars; ValueError lists them all.
validate_credentials(cfg) ==
    LET missing_vars == missing_from(cfg, 1)
    IN  [raised |-> missing_vars # <<>>, missing |-> missing_vars]

NoPurgeIn  == [pattern |-> <<>>, max_age_days |-> 0]
NoPurgeOut == [count |-> -1, deleted |-> {}, error |-> FALSE]

\* What every operation that is not exercised leaves in its variables.
FsIdle ==
    /\ detIn = NoDetIn
    /\ detOut = NoDetOut
    /\ detCause = NoDetCause
    /\ dir0 = {}
    /\ purgeIn = NoPurgeIn
    /\ purgeOut = NoPurgeOut

NoTabIn  == [handles |-> <<>>, focus |-> 0, n |-> 0]
NoTabOut == [title |-> 0, raised |-> "none", count |-> 0]

TabIdle ==
    /\ tabIn = NoTabIn
    /\ tabPolls = 0
    /\ tabOut = NoTabOut

NoKeysIn  == [clear_first |-> FALSE, timeout |-> 0, keys |-> "", visible |-> FALSE,
              failAt |-> "none", err |-> "none", n |-> 0]
NoKeysOut == [events |-> <<>>, typed |-> "", blocked |-> 0, raised |-> "none"]

KeysIdle ==
    /\ keysIn = NoKeysIn
    /\ keysOut = NoKeysOut

\* The value None of stable_start (a time is never negative).
NoTime == -1

NoStIn == [stable_duration |-> 0, max_wait |-> 0, n |-> 0]
NoSt   == [t |-> 0, last_size |-> 0, stable_start |-> NoTime, samples |-> <<>>,
           ret |-> "none"]

StableIdle ==
    /\ stIn = NoStIn
    /\ st = NoSt

ProbeIdle ==
    /\ waitLog = <<>>
    /\ KeysIdle
    /\ StableIdle

\* ------------------------------------------------------------------- init
Init ==
    /\ mode = "none"
    /\ pc = "construct"
    /\ runs = 0
    /\ wfDriver = None
    /\ mgrDriver = None
    /\ created = 0
    /\ base = 0
    /\ live = {}
    /\ quitCalled = {}
    /\ trace = <<>>
    /\ cleanupLog = <<>>
    /\ errors = <<>>
    /\ loginResult = "none"
    /\ mfa = "none"
    /\ jqlMode = "none"
    /\ exportResult = "none"
    /\ exc = "none"
    /\ pending = "none"
    /\ result = "none"
    /\ clickIn = NoClickIn
    /\ lastClick = NoClick
    /\ dirExists = TRUE
    /\ dir = {[name |-> NameA, mtime |-> 100, isFile |-> TRUE]}
    /\ now = Clock0930 - (DownloadSleep + DefaultWait)
    /\ platform = "posix"
    /\ FsIdle
    /\ windows = <<1>>
    /\ focus = 1
    /\ TabIdle
    /\ ProbeIdle
    /\ config \in Configs
    /\ validation = [raised |-> FALSE, missing |-> <<>>]
    /\ exitCode = -1

\* JiraAutomationWorkflow.__init__, called by main() before its try block:
\* the driver manager and the file operations are created (no browser),
\* then _validate_configuration, which logs and re-raises the ValueError of
\* validate_credentials. The ValueError leaves main() uncaught: the
\* interpreter ends with status 1.
construct ==
    /\ pc = "construct"
    /\ validation' = validate_credentials(config)
    /\ IF validation'.raised
       THEN pc' = "config_error" /\ exitCode' = 1
       ELSE pc' = "idle" /\ UNCHANGED exitCode
    /\ UNCHANGED <<mode, runs, wfDriver, mgrDriver, created, base, live,
                   quitCalled, trace, cleanupLog, errors, loginResult, mfa,
                   jqlMode, exportResult, exc, pending, result, clickIn,
                   lastClick>>
    /\ UNCHANGED <<fsVars, tabVars, config, probeVars, waitLog>>

\* ---------------------------------------------------------- orchestrator
\* main(): workflow.run_full_workflow() or workflow.run_jira_export_only()
run_start ==
    /\ pc = "idle"
    /\ runs < MaxRuns
    /\ \E m \in {"full", "export-only"} : mode' = m
    /\ pc' = "setup"
    /\ trace' = <<>>
    /\ cleanupLog' = <<>>
    /\ errors' = <<>>
    /\ loginResult' = "none"
    /\ mfa' = "none"
    /\ jqlMode' = "none"
    /\ exportResult' = "none"
    /\ exc' = "none"
    /\ pending' = "none"
    /\ result' = "none"
    /\ clickIn' = NoClickIn
    /\ lastClick' = NoClick
    /\ base' = created
    /\ detIn' = NoDetIn
    /\ detOut' = NoDetOut
    /\ detCause' = NoDetCause
    /\ dir0' = {}
    /\ purgeIn' = NoPurgeIn
    /\ purgeOut' = NoPurgeOut
    /\ waitLog' = <<>>
    /\ UNCHANGED <<runs, wfDriver, mgrDriver, created, live, quitCalled>>
    /\ UNCHANGED <<dirExists, dir, now, platform, tabVars, cfgVars, probeVars, exitCode>>

\* Groups of variables that whole families of actions leave alone.
sessionVars == <<wfDriver, mgrDriver, created, base, live, quitCalled>>
runVars     == <<mode, runs, cleanupLog, pending, result>>

\* An exception raised by the primitive of step `s`.
Raised(s, e) == Append(errors, [step |-> s, err |-> e])

\* _setup_webdriver -> WebDriverManager.setup_driver. The page of failures:
\*   "before"  ChromeDriverManager().install() or webdriver.Chrome() raises:
\*             no browser exists and self.driver of the manager is not assigned
\*   "after"   webdriver.Chrome() returned and was stored in the manager's
\*             self.driver, then implicitly_wait / set_page_load_timeout raises
\* In both failures the exception leaves setup_driver before
\* `self.driver = self._setup_webdriver()` of the workflow assigns anything.
setup_driver ==
    /\ pc = "setup"
    /\ trace' = Append(trace, "setup")
    /\ \E o \in {"ok", "before", "after"} :
         CASE o = "before" ->
                /\ exc' = "WebDriverException"
                /\ pc' = "except"
                /\ UNCHANGED <<wfDriver, mgrDriver, created, live>>
           [] o = "after" ->
                /\ created' = created + 1
                /\ live' = live \cup {created + 1}
                /\ mgrDriver' = created + 1
                /\ exc' = "WebDriverException"
                /\ pc' = "except"
                /\ UNCHANGED wfDriver
           [] OTHER ->
                /\ created' = created + 1
                /\ live' = live \cup {created + 1}
                /\ mgrDriver' = created + 1
                /\ wfDriver' = created + 1
                /\ exc' = exc
                /\ pc' = "nav_idp"
    /\ UNCHANGED <<runVars, base, quitCalled, errors, loginResult, mfa, jqlMode,
                   exportResult, clickIn, lastClick>>
    /\ UNCHANGED envVars

\* ------------------------------------------------ authentication (login)
\* A primitive of login() raised `e` in step `s`: login's `except Exception`
\* prints and returns False.
LoginFails(s, e) ==
    /\ errors' = Raised(s, e)
    /\ loginResult' = "False"
    /\ pc' = "login_return"

\* A safe_send_keys call inside login().
LoginType(s, next) ==
    /\ pc = s
    /\ trace' = Append(trace, s)
    /\ \E o \in SendKeysOutcomes :
         LET r == safe_send_keys(o)
         IN  IF r = "ok"
             THEN pc' = next /\ UNCHANGED <<errors, loginResult>>
             ELSE LoginFails(s, r)
    /\ UNCHANGED <<runVars, sessionVars, mfa, jqlMode, exportResult, exc,
                   clickIn, lastClick>>
    /\ UNCHANGED envVars

\* A safe_click call (default timeout and retries) inside login().
LoginClick(s, next) ==
    /\ pc = s
    /\ trace' = Append(trace, s)
    /\ \E outs \in PageScripts(DefaultRetries) :
         LET r == safe_click(outs, DefaultClickTimeout, DefaultRetries)
         IN  /\ clickIn' = [retries |-> DefaultRetries,
                            timeout |-> DefaultClickTimeout, outs |-> outs]
             /\ lastClick' = r
             /\ IF r.result = "ok"
                THEN pc' = next /\ UNCHANGED <<errors, loginResult>>
                ELSE LoginFails(s, r.result)
    /\ UNCHANGED <<runVars, sessionVars, mfa, jqlMode, exportResult, exc>>
    /\ UNCHANGED envVars

\* _navigate_to_jumpcloud: driver.get may raise ("error"); then
\* wait_for_page_load, whose result is not looked at: the page is complete
\* in time ("ok") or not ("late").
navigate_to_jumpcloud ==
    /\ pc = "nav_idp"
    /\ trace' = Append(trace, "nav_idp")
    /\ \E o \in {"ok", "late", "error"} :
         IF o = "error"
         THEN LoginFails("nav_idp", "WebDriverException") /\ UNCHANGED waitLog
         ELSE LET w == wait_for_page_load(o = "ok")
              IN  /\ waitLog' = Waited("nav_idp", PageLoadTimeout, w.signal)
                  /\ IF w.raised = "none"
                     THEN pc' = "email" /\ UNCHANGED <<errors, loginResult>>
                     ELSE LoginFails("nav_idp", w.raised)
    /\ UNCHANGED <<runVars, sessionVars, mfa, jqlMode, exportResult, exc,
                   clickIn, lastClick>>
    /\ UNCHANGED envRest

enter_credentials_email     == LoginType("email", "continue1")
enter_credentials_continue1 == LoginClick("continue1", "password")
enter_credentials_password  == LoginType("password", "continue2")
enter_credentials_continue2 == LoginClick("continue2", "mfa_probe")

\* _handle_mfa as it would be without its `except TimeoutException`: the
\* timeout of the probe leaves the method and fails the login.
handle_mfa_propagates ==
    /\ pc = "mfa_probe"
    /\ \E o \in {"absent", "present", "error"} :
         CASE o = "absent" ->
                /\ trace' = Append(trace, "mfa_probe")
                /\ mfa' = "absent"
                /\ waitLog' = Waited("mfa_probe", MfaProbeTimeout, "timeout")
                /\ LoginFails("mfa_probe", "TimeoutException")
           [] o = "present" ->
                /\ trace' = trace \o <<"mfa_probe", "mfa_push">>
                /\ mfa' = "pushed"
                /\ waitLog' = Waited("mfa_probe", MfaProbeTimeout, "found")
                /\ pc' = "dashboard"
                /\ UNCHANGED <<errors, loginResult>>
           [] OTHER ->
                /\ trace' = Append(trace, "mfa_probe")
                /\ mfa' = "error"
                /\ waitLog' = Waited("mfa_probe", MfaProbeTimeout, "error")
                /\ LoginFails("mfa_probe", "WebDriverException")
    /\ UNCHANGED <<runVars, sessionVars, jqlMode, exportResult, exc,
                   clickIn, lastClick>>
    /\ UNCHANGED envRest

\* _handle_mfa as it would be if it clicked the push button twice.
handle_mfa_double_push ==
    /\ pc = "mfa_probe"
    /\ \E o \in {"absent", "present", "error"} :
         CASE o = "absent" ->
                /\ trace' = Append(trace, "mfa_probe")
                /\ mfa' = "absent"
                /\ waitLog' = Waited("mfa_probe", MfaProbeTimeout, "timeout")
                /\ errors' = Raised("mfa_probe", "TimeoutException")
                /\ pc' = "dashboard"
                /\ UNCHANGED loginResult
           [] o = "present" ->
                /\ trace' = trace \o <<"mfa_probe", "mfa_push", "mfa_push">>
                /\ mfa' = "pushed"
                /\ waitLog' = Waited("mfa_probe", MfaProbeTimeout, "found")
                /\ pc' = "dashboard"
                /\ UNCHANGED <<errors, loginResult>>
           [] OTHER ->
                /\ trace' = Append(trace, "mfa_probe")
                /\ mfa' = "error"
                /\ waitLog' = Waited("mfa_probe", MfaProbeTimeout, "error")
                /\ LoginFails("mfa_probe", "WebDriverException")
    /\ UNCHANGED <<runVars, sessionVars, jqlMode, exportResult, exc,
                   clickIn, lastClick>>
    /\ UNCHANGED envRest

\* _handle_mfa: probe for the push button for MfaProbeTimeout seconds.
\*   "absent"   the wait times out: TimeoutException is caught, nothing else
\*   "present"  the button is visible: the click script is run on it
\*   "error"    the click script (or the wait) raises something that is not
\*              a TimeoutException: it leaves _handle_mfa
handle_mfa ==
    /\ pc = "mfa_probe"
    /\ \E o \in {"absent", "present", "error"} :
         CASE o = "absent" ->
                /\ trace' = Append(trace, "mfa_probe")
                /\ mfa' = "absent"
                /\ waitLog' = Waited("mfa_probe", MfaProbeTimeout, "timeout")
                /\ errors' = Raised("mfa_probe", "TimeoutException")
                /\ pc' = "dashboard"
                /\ UNCHANGED loginResult
           [] o = "present" ->
                /\ trace' = trace \o <<"mfa_probe", "mfa_push">>
                /\ mfa' = "pushed"
                /\ waitLog' = Waited("mfa_probe", MfaProbeTimeout, "found")
                /\ pc' = "dashboard"
                /\ UNCHANGED <<errors, loginResult>>
           [] OTHER ->
                /\ trace' = Append(trace, "mfa_probe")
                /\ mfa' = "error"
                /\ waitLog' = Waited("mfa_probe", MfaProbeTimeout, "error")
                /\ LoginFails("mfa_probe", "WebDriverException")
    /\ UNCHANGED <<runVars, sessionVars, jqlMode, exportResult, exc,
                   clickIn, lastClick>>
    /\ UNCHANGED envRest

\* _wait_for_dashboard as it would be with one automatic retry of the
\* login after the first timeout.
wait_for_dashboard_retry ==
    /\ pc = "dashboard"
    /\ trace' = Append(trace, "dashboard")
    /\ \E o \in {"ok", "timeout"} :
       /\ waitLog' = Waited("dashboard", MFA_TIMEOUT,
                            IF o = "timeout" THEN "timeout" ELSE "found")
       /\ IF o = "timeout"
         THEN IF "dashboard" \in {trace[i] : i \in DOMAIN trace}
              THEN LoginFails("dashboard", "TimeoutException")
              ELSE /\ errors' = Raised("dashboard", "TimeoutException")
                   /\ pc' = "nav_idp"
                   /\ UNCHANGED loginResult
         ELSE /\ loginResult' = "True"
              /\ pc' = "login_return"
              /\ UNCHANGED errors
    /\ UNCHANGED <<runVars, sessionVars, mfa, jqlMode, exportResult, exc,
                   clickIn, lastClick>>
    /\ UNCHANGED envRest

\* _wait_for_dashboard: wait up to MFA_TIMEOUT for the search input; a
\* timeout becomes Exception("Dashboard failed to load ..."). When it
\* returns, login() returns True.
wait_for_dashboard ==
    /\ pc = "dashboard"
    /\ trace' = Append(trace, "dashboard")
    /\ \E o \in {"ok", "timeout"} :
       /\ waitLog' = Waited("dashboard", MFA_TIMEOUT,
                            IF o = "timeout" THEN "timeout" ELSE "found")
       /\ IF o = "timeout"
         THEN LoginFails("dashboard", "TimeoutException")
         ELSE /\ loginResult' = "True"
              /\ pc' = "login_return"
              /\ UNCHANGED errors
    /\ UNCHANGED <<runVars, sessionVars, mfa, jqlMode, exportResult, exc,
                   clickIn, lastClick>>
    /\ UNCHANGED envRest

\* _authenticate_jumpcloud as it would be without the test of login()'s
\* return value.
authenticate_jumpcloud_unchecked ==
    /\ pc = "login_return"
    /\ exc' = exc
    /\ pc' = "handoff_search"
    /\ UNCHANGED <<runVars, sessionVars, trace, errors, loginResult, mfa,
                   jqlMode, exportResult, clickIn, lastClick>>
    /\ UNCHANGED envVars

\* _authenticate_jumpcloud: `if not auth.login(): raise Exception(...)`,
\* otherwise go on to auth.navigate_to_jira().
authenticate_jumpcloud ==
    /\ pc = "login_return"
    /\ IF loginResult = "False"
       THEN exc' = "Exception" /\ pc' = "except"
       ELSE exc' = exc /\ pc' = "handoff_search"
    /\ UNCHANGED <<runVars, sessionVars, trace, errors, loginResult, mfa,
                   jqlMode, exportResult, clickIn, lastClick>>
    /\ UNCHANGED envVars

\* ------------------------------------------------------- SSO hand-off
\* An exception that leaves a step outside login(): it travels up to the
\* try block of the run.
RunFails(s, e) ==
    /\ errors' = Raised(s, e)
    /\ exc' = e
    /\ pc' = "except"

\* navigate_to_app: search the application (safe_send_keys), click it
\* (safe_click), switch to the new tab; its except clause re-raises.
navigate_to_app_search ==
    /\ pc = "handoff_search"
    /\ trace' = Append(trace, "handoff_search")
    /\ \E o \in SendKeysOutcomes :
         LET r == safe_send_keys(o)
         IN  IF r = "ok"
             THEN pc' = "handoff_click" /\ UNCHANGED <<errors, exc>>
             ELSE RunFails("handoff_search", r)
    /\ UNCHANGED <<runVars, sessionVars, loginResult, mfa, jqlMode,
                   exportResult, clickIn, lastClick>>
    /\ UNCHANGED envVars

navigate_to_app_click ==
    /\ pc = "handoff_click"
    /\ trace' = Append(trace, "handoff_click")
    /\ \E outs \in PageScripts(DefaultRetries) :
         LET r == safe_click(outs, DefaultClickTimeout, DefaultRetries)
         IN  /\ clickIn' = [retries |-> DefaultRetries,
                            timeout |-> DefaultClickTimeout, outs |-> outs]
             /\ lastClick' = r
             /\ IF r.result = "ok"
                THEN pc' = "handoff_tab" /\ UNCHANGED <<errors, exc>>
                ELSE RunFails("handoff_click", r.result)
    /\ UNCHANGED <<runVars, sessionVars, loginResult, mfa, jqlMode,
                   exportResult>>
    /\ UNCHANGED envVars

\* switch_to_new_tab: the wait for the second window succeeds or times out.
navigate_to_app_switch ==
    /\ pc = "handoff_tab"
    /\ trace' = Append(trace, "handoff_tab")
    /\ \E o \in {"ok", "timeout"} :
         IF o = "ok"
         THEN pc' = "nav_search" /\ UNCHANGED <<errors, exc>>
         ELSE RunFails("handoff_tab", "TimeoutException")
    /\ UNCHANGED <<runVars, sessionVars, loginResult, mfa, jqlMode,
                   exportResult, clickIn, lastClick>>
    /\ UNCHANGED envVars

\* ------------------------------------------------------- query / export
\* An exception inside the try block of execute_jql_and_export: it is
\* printed and re-raised, so it reaches the try block of the run.
ExportFails(s, e) ==
    /\ exportResult' = "raised"
    /\ RunFails(s, e)

\* A safe_click call (default timeout and retries) of the export sequence.
ExportClick(s, next) ==
    /\ pc = s
    /\ trace' = Append(trace, s)
    /\ \E outs \in PageScripts(DefaultRetries) :
         LET r == safe_click(outs, DefaultClickTimeout, DefaultRetries)
         IN  /\ clickIn' = [retries |-> DefaultRetries,
                            timeout |-> DefaultClickTimeout, outs |-> outs]
             /\ lastClick' = r
             /\ IF r.result = "ok"
                THEN pc' = next /\ UNCHANGED <<errors, exc, exportResult>>
                ELSE ExportFails(s, r.result)
    /\ UNCHANGED <<runVars, sessionVars, loginResult, mfa, jqlMode>>
    /\ UNCHANGED envVars

\* _navigate_to_search: driver.get may raise ("error"); then
\* wait_for_page_load, whose result is not looked at.
navigate_to_search ==
    /\ pc = "nav_search"
    /\ trace' = Append(trace, "nav_search")
    /\ \E o \in {"ok", "late", "error"} :
         IF o = "error"
         THEN ExportFails("nav_search", "WebDriverException") /\ UNCHANGED waitLog
         ELSE LET w == wait_for_page_load(o = "ok")
              IN  /\ waitLog' = Waited("nav_search", PageLoadTimeout, w.signal)
                  /\ IF w.raised = "none"
                     THEN pc' = "jql_mode" /\ UNCHANGED <<errors, exc, exportResult>>
                     ELSE ExportFails("nav_search", w.raised)
    /\ UNCHANGED <<runVars, sessionVars, loginResult, mfa, jqlMode,
                   clickIn, lastClick>>
    /\ UNCHANGED envRest

\* _ensure_jql_mode as it would be without its try/except: whatever
\* safe_click raises leaves the method.
ensure_jql_mode_propagates ==
    /\ pc = "jql_mode"
    /\ trace' = Append(trace, "jql_mode")
    /\ \E outs \in PageScripts(DefaultRetries) :
         LET r == safe_click(outs, JqlModeTimeout, DefaultRetries)
         IN  /\ clickIn' = [retries |-> DefaultRetries,
                            timeout |-> JqlModeTimeout, outs |-> outs]
             /\ lastClick' = r
             /\ IF r.result = "ok"
                THEN /\ jqlMode' = "switched"
                     /\ pc' = "jql_type"
                     /\ UNCHANGED <<errors, exc, exportResult>>
                ELSE /\ jqlMode' = r.result
                     /\ ExportFails("jql_mode", r.result)
    /\ UNCHANGED <<runVars, sessionVars, loginResult, mfa>>
    /\ UNCHANGED envVars

\* _ensure_jql_mode: safe_click on the JQL button with timeout=5 inside
\* `except (TimeoutException, Exception)`: whatever safe_click raises is
\* swallowed and the method returns normally.
ensure_jql_mode ==
    /\ pc = "jql_mode"
    /\ trace' = Append(trace, "jql_mode")
    /\ \E outs \in PageScripts(DefaultRetries) :
         LET r == safe_click(outs, JqlModeTimeout, DefaultRetries)
         IN  /\ clickIn' = [retries |-> DefaultRetries,
                            timeout |-> JqlModeTimeout, outs |-> outs]
             /\ lastClick' = r
             /\ IF r.result = "ok"
                THEN jqlMode' = "switched" /\ UNCHANGED errors
                ELSE jqlMode' = r.result /\ errors' = Raised("jql_mode", r.result)
    /\ pc' = "jql_type"
    /\ UNCHANGED <<runVars, sessionVars, loginResult, mfa, exportResult, exc>>
    /\ UNCHANGED envVars

\* _execute_jql_query: type the query, click search (then sleep 3 s).
execute_jql_query_type ==
    /\ pc = "jql_type"
    /\ trace' = Append(trace, "jql_type")
    /\ \E o \in SendKeysOutcomes :
         LET r == safe_send_keys(o)
         IN  IF r = "ok"
             THEN pc' = "jql_search" /\ UNCHANGED <<errors, exc, exportResult>>
             ELSE ExportFails("jql_type", r)
    /\ UNCHANGED <<runVars, sessionVars, loginResult, mfa, jqlMode,
                   clickIn, lastClick>>
    /\ UNCHANGED envVars

execute_jql_query_search == ExportClick("jql_search", "export_menu")

\* _export_csv: open the export menu (then sleep 1 s), click the CSV entry.
export_csv_menu   == ExportClick("export_menu", "export_csv")
export_csv_select == ExportClick("export_csv", "download")

\* What the export click left in the download directory by the time the
\* detector looks: nothing, a download still in progress, the finished file,
\* or no directory at all.
DownloadFates == {"none", "partial", "complete", "dir_removed"}

Downloaded(fate) ==
    CASE ~dirExists \/ fate = "dir_removed" -> [exists |-> FALSE, dir |-> {}]
      [] fate = "partial" ->
           [exists |-> TRUE,
            dir |-> {f \in dir : f.name # NameB}
                    \cup {[name |-> NameB, mtime |-> now, isFile |-> TRUE]}]
      [] fate = "complete" ->
           [exists |-> TRUE,
            dir |-> {f \in dir : f.name # NameNew}
                    \cup {[name |-> NameNew, mtime |-> now, isFile |-> TRUE]}]
      [] OTHER -> [exists |-> TRUE, dir |-> dir]

\* _handle_downloaded_file as it would be if it returned the None of
\* find_and_rename_latest_file instead of raising.
handle_downloaded_file_returns_none ==
    /\ pc = "download"
    /\ trace' = Append(trace, "download")
    /\ \E fate \in DownloadFates :
         LET dl == Downloaded(fate)
         IN  /\ dirExists' = dl.exists
             /\ find_and_rename_latest_file(dl.exists, dl.dir, JiraReport,
                                            DefaultWait,
                                            DownloadSleep + DefaultWait)
    /\ IF detOut'.ret = NoPath
       THEN /\ errors' = Raised("download", "Exception")
            /\ exportResult' = "None"
            /\ pc' = "export_check"
            /\ UNCHANGED exc
       ELSE /\ exportResult' = "path"
            /\ pc' = "export_check"
            /\ UNCHANGED <<errors, exc>>
    /\ UNCHANGED <<runVars, sessionVars, loginResult, mfa, jqlMode,
                   clickIn, lastClick>>
    /\ UNCHANGED <<platform, purgeIn, purgeOut, tabVars, cfgVars, probeVars, waitLog, exitCode>>

\* _handle_downloaded_file: time.sleep(15), then find_and_rename_latest_file
\* on the download directory with the prefix "Jira_Report" (which sleeps its
\* own 15 s). It returns the renamed path, or None (no file found, or any
\* error during the rename); None becomes
\* Exception("Failed to process downloaded file"). With a path,
\* execute_jql_and_export returns it.
handle_downloaded_file ==
    /\ pc = "download"
    /\ trace' = Append(trace, "download")
    /\ \E fate \in DownloadFates :
         LET dl == Downloaded(fate)
         IN  /\ dirExists' = dl.exists
             /\ find_and_rename_latest_file(dl.exists, dl.dir, JiraReport,
                                            DefaultWait,
                                            DownloadSleep + DefaultWait)
    /\ IF detOut'.ret = NoPath
       THEN ExportFails("download", "Exception")
       ELSE /\ exportResult' = "path"
            /\ pc' = "export_check"
            /\ UNCHANGED <<errors, exc>>
    /\ UNCHANGED <<runVars, sessionVars, loginResult, mfa, jqlMode,
                   clickIn, lastClick>>
    /\ UNCHANGED <<platform, purgeIn, purgeOut, tabVars, cfgVars, probeVars, waitLog, exitCode>>

\* _export_jira_data: `if not exported_file or not exported_file.exists():
\* raise`; otherwise the try block of the run reaches its return statement:
\* True for run_full_workflow, the path for run_jira_export_only.
export_jira_data ==
    /\ pc = "export_check"
    /\ \E exists \in BOOLEAN :
         IF exportResult = "path" /\ exists
         THEN /\ pending' = IF mode = "full" THEN "True" ELSE "path"
              /\ pc' = "cleanup"
              /\ exc' = exc
         ELSE /\ exc' = "Exception"
              /\ pc' = "except"
              /\ pending' = pending
    /\ UNCHANGED <<mode, runs, cleanupLog, result, sessionVars, trace, errors,
                   loginResult, mfa, jqlMode, exportResult, clickIn, lastClick>>
    /\ UNCHANGED envVars

\* ------------------------------------------------------ except / finally
\* The except clause of the run: run_full_workflow logs and returns False,
\* run_jira_export_only logs and re-raises.
run_except ==
    /\ pc = "except"
    /\ pending' = IF mode = "full" THEN "False" ELSE "raise"
    /\ pc' = "cleanup"
    /\ UNCHANGED <<mode, runs, cleanupLog, result, sessionVars, trace, errors,
                   loginResult, mfa, jqlMode, exportResult, exc, clickIn,
                   lastClick>>
    /\ UNCHANGED envVars

\* ----------------------------------------------------------- old files
DaySeconds == 24 * 60 * 60

GlobAll == <<"*">>
GlobCsv == <<"*", ".", "c", "s", "v">>

\* Path.glob(pattern) for the patterns "*" and "*.csv": every entry of the
\* directory, or the entries whose name ends in ".csv".
glob(d, pattern) ==
    IF pattern = GlobAll THEN d
    ELSE {f \in d : EndsWith(f.name, Tail(pattern))}

\* The entries clean_old_files unlinks when nothing fails: regular files of
\* the glob whose age, current_time - st_mtime, exceeds max_age_seconds.
to_delete(d, max_age_days, pattern, t) ==
    {f \in glob(d, pattern) :
        f.isFile /\ t - f.mtime > max_age_days * DaySeconds}

\* clean_old_files(directory_path, max_age_days, pattern) at clock t: what
\* it may leave and return. `return 0` without the directory. Otherwise the
\* loop unlinks the files to delete in the order of glob(), counting them;
\* when stat() or unlink() raises on a file of the glob (it vanished, or
\* may not be removed), the files unlinked so far stay unlinked and the
\* except clause returns 0.
clean_old_files(exists, d, max_age_days, pattern, t) ==
    LET old == to_delete(d, max_age_days, pattern, t)
    IN  IF ~exists
        THEN {[deleted |-> {}, count |-> 0, error |-> FALSE]}
        ELSE {[deleted |-> old, count |-> Cardinality(old), error |-> FALSE]}
             \cup {[deleted |-> done, count |-> 0, error |-> TRUE] :
                      done \in {D \in SUBSET old :
                                  \E f \in glob(d, pattern) \ D : f.isFile}}

\* close_driver as it would be without its `finally` clause: the handle is
\* dropped only when quit() returned.
close_driver_keeps_handle(q) ==
    IF mgrDriver # None
    THEN /\ quitCalled' = quitCalled \cup {mgrDriver}
         /\ live' = IF q = "ok" THEN live \ {mgrDriver} ELSE live
         /\ mgrDriver' = IF q = "ok" THEN None ELSE mgrDriver
         /\ cleanupLog' = cleanupLog \o <<"quit", "purge">>
    ELSE /\ UNCHANGED <<quitCalled, live, mgrDriver>>
         /\ cleanupLog' = Append(cleanupLog, "purge")

\* WebDriverManager.close_driver: only when the manager holds a driver;
\* quit() is called, an exception from it is swallowed, and the manager's
\* handle is dropped in the finally clause either way.
close_driver(q) ==
    IF mgrDriver # None
    THEN /\ quitCalled' = quitCalled \cup {mgrDriver}
         /\ live' = IF q = "ok" THEN live \ {mgrDriver} ELSE live
         /\ mgrDriver' = None
         /\ cleanupLog' = cleanupLog \o <<"quit", "purge">>
    ELSE /\ UNCHANGED <<quitCalled, live, mgrDriver>>
         /\ cleanupLog' = Append(cleanupLog, "purge")

\* What _cleanup passes to clean_old_files: max_age_days=7, pattern="*.csv".
CleanupMaxAgeDays == 7

\* _cleanup as it would be if an error of the purge left it: the exception
\* would replace what the run was about to return.
cleanup_purge_propagates ==
    /\ pc = "cleanup"
    /\ IF wfDriver # None
       THEN \E q \in {"ok", "raise"} : close_driver(q)
       ELSE /\ UNCHANGED <<quitCalled, live, mgrDriver>>
            /\ cleanupLog' = Append(cleanupLog, "purge")
    /\ \E r \in clean_old_files(dirExists, dir, CleanupMaxAgeDays, GlobCsv, now) :
         /\ purgeIn' = [pattern |-> GlobCsv, max_age_days |-> CleanupMaxAgeDays]
         /\ purgeOut' = r
         /\ dir' = dir \ r.deleted
         /\ IF r.error
            THEN pending' = "raise" /\ exc' = "Exception"
            ELSE UNCHANGED <<pending, exc>>
    /\ pc' = "return"
    /\ UNCHANGED <<mode, runs, result, wfDriver, created, base, trace,
                   errors, loginResult, mfa, jqlMode, exportResult,
                   clickIn, lastClick>>
    /\ UNCHANGED <<dirExists, now, platform, detIn, detOut, detCause, dir0,
                   tabVars, cfgVars, probeVars, waitLog, exitCode>>

\* _cleanup, the finally block of both runs: `if self.driver:` (the
\* workflow's own field) close the driver; then clean_old_files on the
\* download directory, whose count is only logged and whose errors are
\* caught (by clean_old_files itself, and by the try/except around the
\* call). Neither _cleanup nor close_driver calls take_screenshot /
\* save_screenshot.
cleanup ==
    /\ pc = "cleanup"
    /\ IF wfDriver # None
       THEN \E q \in {"ok", "raise"} : close_driver(q)
       ELSE /\ UNCHANGED <<quitCalled, live, mgrDriver>>
            /\ cleanupLog' = Append(cleanupLog, "purge")
    /\ \E r \in clean_old_files(dirExists, dir, CleanupMaxAgeDays, GlobCsv, now) :
         /\ purgeIn' = [pattern |-> GlobCsv, max_age_days |-> CleanupMaxAgeDays]
         /\ purgeOut' = r
         /\ dir' = dir \ r.deleted
    /\ pc' = "return"
    /\ UNCHANGED <<mode, runs, pending, result, wfDriver, created, base, trace,
                   errors, loginResult, mfa, jqlMode, exportResult, exc,
                   clickIn, lastClick>>
    /\ UNCHANGED <<dirExists, now, platform, detIn, detOut, detCause, dir0,
                   tabVars, cfgVars, probeVars, waitLog, exitCode>>

\* Positions inside the try block of a run.
TryPositions ==
    {"setup", "nav_idp", "email", "continue1", "password", "continue2",
     "mfa_probe", "dashboard", "login_return", "handoff_search",
     "handoff_click", "handoff_tab", "nav_search", "jql_mode", "jql_type",
     "jql_search", "export_menu", "export_csv", "download", "export_check"}

\* The user cancels (Ctrl-C). KeyboardInterrupt is not an Exception: inside
\* the try block of the run no `except Exception` catches it and the finally
\* clause runs _cleanup; during the sleep of close_driver it skips quit(),
\* the finally clause of close_driver drops the manager's handle, and it
\* leaves _cleanup before clean_old_files, replacing what the run was about
\* to return.
keyboard_interrupt ==
    /\ \/ /\ pc \in TryPositions
          /\ pc' = "cleanup"
          /\ UNCHANGED mgrDriver
       \/ /\ pc = "cleanup"
          /\ wfDriver # None
          /\ mgrDriver # None
          /\ mgrDriver' = None
          /\ pc' = "return"
    /\ exc' = "KeyboardInterrupt"
    /\ pending' = "raise"
    /\ UNCHANGED <<mode, runs, cleanupLog, result, wfDriver, created, base,
                   live, quitCalled, trace, errors, loginResult, mfa, jqlMode,
                   exportResult, clickIn, lastClick>>
    /\ UNCHANGED envVars

\* The run hands its result (or its exception) to the caller.
run_return ==
    /\ pc = "return"
    /\ result' = pending
    /\ runs' = runs + 1
    /\ pc' = "idle"
    /\ UNCHANGED <<mode, cleanupLog, pending, sessionVars, trace, errors,
                   loginResult, mfa, jqlMode, exportResult, exc, clickIn,
                   lastClick>>
    /\ UNCHANGED envVars

\* sys.exit(0 if success else 1) with success the value returned by
\* run_full_workflow, or True once run_jira_export_only has returned; an
\* exception of the run reaches `except KeyboardInterrupt` or
\* `except Exception`, both sys.exit(1).
exit_status(m, r) ==
    CASE r = "raise"                        -> 1
      [] m = "full" /\ r = "True"           -> 0
      [] m = "full"                         -> 1
      [] OTHER                              -> 0

\* main(): the process ends after the one run it started.
main_exit ==
    /\ pc = "idle"
    /\ runs = 1
    /\ result # "none"
    /\ exitCode' = exit_status(mode, result)
    /\ pc' = "exited"
    /\ UNCHANGED <<mode, runs, cleanupLog, pending, result, sessionVars, trace,
                   errors, loginResult, mfa, jqlMode, exportResult, exc,
                   clickIn, lastClick>>
    /\ UNCHANGED <<fsVars, tabVars, cfgVars, probeVars, waitLog>>

Next ==
    \/ construct
    \/ run_start
    \/ setup_driver
    \/ navigate_to_jumpcloud
    \/ enter_credentials_email
    \/ enter_credentials_continue1
    \/ enter_credentials_password
    \/ enter_credentials_continue2
    \/ handle_mfa
    \/ wait_for_dashboard
    \/ authenticate_jumpcloud
    \/ navigate_to_app_search
    \/ navigate_to_app_click
    \/ navigate_to_app_switch
    \/ navigate_to_search
    \/ ensure_jql_mode
    \/ execute_jql_query_type
    \/ execute_jql_query_search
    \/ export_csv_menu
    \/ export_csv_select
    \/ handle_downloaded_file
    \/ export_jira_data
    \/ run_except
    \/ cleanup
    \/ run_return
    \/ main_exit


Spec == Init /\ [][Next]_vars

\* The runs with a user who may cancel at any moment.
NextCancel == Next \/ keyboard_interrupt

SpecCancel == Init /\ [][NextCancel]_vars

\* ------------------------------------------- safe_click called on its own
\* Timeouts given to safe_click by its callers.
ClickTimeouts == {JqlModeTimeout, DefaultClickTimeout}

\* The arguments of one call and the behaviour of the page during it.
ClickInputs ==
    UNION { [retries : {r}, timeout : ClickTimeouts, outs : ClickScripts(r)] :
            r \in 0..MaxRetries }

InitClick ==
    /\ mode = "none"
    /\ pc = "click_call"
    /\ runs = 0
    /\ wfDriver = None
    /\ mgrDriver = None
    /\ created = 0
    /\ base = 0
    /\ live = {}
    /\ quitCalled = {}
    /\ trace = <<>>
    /\ cleanupLog = <<>>
    /\ errors = <<>>
    /\ loginResult = "none"
    /\ mfa = "none"
    /\ jqlMode = "none"
    /\ exportResult = "none"
    /\ exc = "none"
    /\ pending = "none"
    /\ result = "none"
    /\ clickIn \in ClickInputs
    /\ lastClick = NoClick
    /\ dirExists = TRUE
    /\ dir = {}
    /\ now = Clock0930
    /\ platform = "posix"
    /\ FsIdle
    /\ windows = <<1>>
    /\ focus = 1
    /\ TabIdle
    /\ ProbeIdle
    /\ config = ValidConfig
    /\ validation = [raised |-> FALSE, missing |-> <<>>]
    /\ exitCode = -1

click_call ==
    /\ pc = "click_call"
    /\ lastClick' = safe_click(clickIn.outs, clickIn.timeout, clickIn.retries)
    /\ pc' = "click_done"
    /\ UNCHANGED <<runVars, sessionVars, trace, errors, loginResult, mfa,
                   jqlMode, exportResult, exc, clickIn>>
    /\ UNCHANGED envVars

NextClick == click_call

SpecClick == InitClick /\ [][NextClick]_vars

\* --------------------------- find_and_rename_latest_file called on its own
Prefixes == {JiraReport, <<"R">>}

\* Directories the detector is tried on: a.csv and b.csv.crdownload are each
\* absent or present with one of two modification times, .d is absent or
\* present; the subdirectory sub, when present, is the most recent entry.
Entry(name, mtimes, isFile) ==
    {{}} \cup {{[name |-> name, mtime |-> m, isFile |-> isFile]} : m \in mtimes}

InitDirs ==
    {a \cup b \cup d \cup sub :
        a \in Entry(NameA, {100, 200}, TRUE),
        b \in Entry(NameB, {100, 200}, TRUE),
        d \in Entry(NameD, {100}, TRUE),
        sub \in Entry(NameSub, {300}, FALSE)}

StartClocks == {Clock0930 - DefaultWait, 86399}

InitFiles ==
    /\ mode = "none"
    /\ pc = "det_idle"
    /\ runs = 0
    /\ wfDriver = None
    /\ mgrDriver = None
    /\ created = 0
    /\ base = 0
    /\ live = {}
    /\ quitCalled = {}
    /\ trace = <<>>
    /\ cleanupLog = <<>>
    /\ errors = <<>>
    /\ loginResult = "none"
    /\ mfa = "none"
    /\ jqlMode = "none"
    /\ exportResult = "none"
    /\ exc = "none"
    /\ pending = "none"
    /\ result = "none"
    /\ clickIn = NoClickIn
    /\ lastClick = NoClick
    /\ dirExists \in BOOLEAN
    /\ dir \in IF dirExists THEN InitDirs ELSE {{}}
    /\ now \in StartClocks
    /\ platform \in Platforms
    /\ FsIdle
    /\ windows = <<1>>
    /\ focus = 1
    /\ TabIdle
    /\ ProbeIdle
    /\ config = ValidConfig
    /\ validation = [raised |-> FALSE, missing |-> <<>>]
    /\ exitCode = -1

\* Variables of a run, which the operations exercised on their own leave
\* alone.
orchVars == <<mode, runs, wfDriver, mgrDriver, created, base, live, quitCalled,
              trace, cleanupLog, errors, loginResult, mfa, jqlMode,
              exportResult, exc, pending, result, clickIn, lastClick>>

\* A caller invokes the detector; time.sleep(wait_seconds) takes wait_seconds
\* or a second more.
detector_call ==
    /\ pc = "det_idle"
    /\ detIn.n < MaxCalls
    /\ \E prefix \in Prefixes, wait \in {0, DefaultWait}, extra \in {0, 1} :
         find_and_rename_latest_file(dirExists, dir, prefix, wait, wait + extra)
    /\ UNCHANGED <<pc, orchVars, dirExists, platform, purgeIn, purgeOut,
                   tabVars, cfgVars, probeVars, waitLog, exitCode>>

\* The browser finishes a download into the directory.
browser_download ==
    /\ pc = "det_idle"
    /\ dirExists
    /\ \A f \in dir : f.name # NameNew
    /\ dir' = dir \cup {[name |-> NameNew, mtime |-> now, isFile |-> TRUE]}
    /\ UNCHANGED <<pc, orchVars, dirExists, now, platform, detIn, detOut,
                   detCause, dir0, purgeIn, purgeOut, tabVars, cfgVars, probeVars, waitLog,
                   exitCode>>

NextFiles == detector_call \/ browser_download

SpecFiles == InitFiles /\ [][NextFiles]_vars

\* ---------------------------------------- switch_to_new_tab called on its own
\* What every variable of a run holds while no run is made.
OrchUnused ==
    /\ mode = "none"
    /\ runs = 0
    /\ wfDriver = None
    /\ mgrDriver = None
    /\ created = 0
    /\ base = 0
    /\ live = {}
    /\ quitCalled = {}
    /\ trace = <<>>
    /\ cleanupLog = <<>>
    /\ errors = <<>>
    /\ loginResult = "none"
    /\ mfa = "none"
    /\ jqlMode = "none"
    /\ exportResult = "none"
    /\ exc = "none"
    /\ pending = "none"
    /\ result = "none"
    /\ clickIn = NoClickIn
    /\ lastClick = NoClick
    /\ config = ValidConfig
    /\ validation = [raised |-> FALSE, missing |-> <<>>]
    /\ exitCode = -1

\* The browser has one to three windows, any of them focused. Handles are
\* numbered in the order the windows were opened; the title of a window is
\* modelled by its handle.
InitTab ==
    /\ OrchUnused
    /\ pc = "tab_idle"
    /\ dirExists = TRUE
    /\ dir = {}
    /\ now = Clock0930
    /\ platform = "posix"
    /\ FsIdle
    /\ \E n \in 1..(MaxWindows - 1) : windows = [i \in 1..n |-> i]
    /\ focus \in {windows[i] : i \in DOMAIN windows}
    /\ TabIdle
    /\ ProbeIdle

\* EC.number_of_windows_to_be(2): len(driver.window_handles) == 2.
number_of_windows_to_be_2(handles) == Len(handles) = 2

\* switch_to_new_tab(driver, timeout=15) is entered.
tab_call ==
    /\ pc \in {"tab_idle", "tab_done"}
    /\ tabIn.n < MaxCalls
    /\ tabIn' = [handles |-> windows, focus |-> focus, n |-> tabIn.n + 1]
    /\ tabPolls' = 0
    /\ tabOut' = NoTabOut
    /\ pc' = "tab_wait"
    /\ UNCHANGED <<orchVars, fsVars, windows, focus, cfgVars, probeVars, waitLog, exitCode>>

\* The page opens a window (a tab) while the wait is running.
open_window ==
    /\ pc = "tab_wait"
    /\ Len(windows) < MaxWindows
    /\ windows' = Append(windows, Len(windows) + 1)
    /\ UNCHANGED <<pc, orchVars, fsVars, focus, tabIn, tabPolls, tabOut,
                   cfgVars, probeVars, waitLog, exitCode>>

\* One turn of WebDriverWait(driver, timeout).until(condition): when the
\* condition holds, driver.switch_to.window(driver.window_handles[-1]) and
\* the title is returned; otherwise the wait sleeps, and when the timeout
\* has elapsed TimeoutException is raised (printed and re-raised).
tab_poll ==
    /\ pc = "tab_wait"
    /\ IF number_of_windows_to_be_2(windows)
       THEN /\ focus' = windows[Len(windows)]
            /\ tabOut' = [title |-> windows[Len(windows)], raised |-> "none",
                          count |-> Len(windows)]
            /\ pc' = "tab_done"
            /\ UNCHANGED tabPolls
       ELSE IF tabPolls + 1 < MaxPolls
       THEN /\ tabPolls' = tabPolls + 1
            /\ UNCHANGED <<pc, focus, tabOut>>
       ELSE /\ tabPolls' = tabPolls + 1
            /\ tabOut' = [title |-> 0, raised |-> "TimeoutException",
                          count |-> Len(windows)]
            /\ pc' = "tab_done"
            /\ UNCHANGED focus
    /\ UNCHANGED <<orchVars, fsVars, windows, tabIn, cfgVars, probeVars, waitLog, exitCode>>

NextTab == tab_call \/ open_window \/ tab_poll

SpecTab == InitTab /\ [][NextTab]_vars

\* ------------------------------------------ clean_old_files called on its own
NameOld1  == <<"o", ".", "c", "s", "v">>
NameOld2  == <<"p", ".", "c", "s", "v">>
NameEdge  == <<"e", ".", "c", "s", "v">>
NameYoung == <<"y", ".", "c", "s", "v">>
NameTxt   == <<"o", ".", "t", "x", "t">>
NameDir   == <<"d", ".", "c", "s", "v">>

\* The clock of the purge: 2024-01-11T00:00:00.
PurgeClock == 10 * DaySeconds

\* Directories the purge is tried on. With max_age_days = 7: o.csv and p.csv
\* are a second older than the limit, e.csv is exactly at the limit, y.csv
\* is a day old, o.txt is as old as o.csv, d.csv is an old subdirectory.
PurgeDirs ==
    {o \cup p \cup e \cup y \cup t \cup sub :
        o \in Entry(NameOld1, {3 * DaySeconds - 1}, TRUE),
        p \in Entry(NameOld2, {3 * DaySeconds - 1}, TRUE),
        e \in Entry(NameEdge, {3 * DaySeconds}, TRUE),
        y \in Entry(NameYoung, {9 * DaySeconds}, TRUE),
        t \in Entry(NameTxt, {3 * DaySeconds - 1}, TRUE),
        sub \in Entry(NameDir, {3 * DaySeconds - 1}, FALSE)}

InitPurge ==
    /\ OrchUnused
    /\ pc = "purge_idle"
    /\ dirExists \in BOOLEAN
    /\ dir \in IF dirExists THEN PurgeDirs ELSE {{}}
    /\ now = PurgeClock
    /\ platform = "posix"
    /\ FsIdle
    /\ windows = <<1>>
    /\ focus = 1
    /\ TabIdle
    /\ ProbeIdle

\* A caller invokes clean_old_files on the directory.
purge_call ==
    /\ pc = "purge_idle"
    /\ \E max_age_days \in {0, 7}, pattern \in {GlobAll, GlobCsv} :
         \E r \in clean_old_files(dirExists, dir, max_age_days, pattern, now) :
             /\ purgeIn' = [pattern |-> pattern, max_age_days |-> max_age_days]
             /\ purgeOut' = r
             /\ dir0' = dir
             /\ dir' = dir \ r.deleted
    /\ pc' = "purge_done"
    /\ UNCHANGED <<orchVars, dirExists, now, platform, detIn, detOut, detCause,
                   tabVars, cfgVars, probeVars, waitLog, exitCode>>

NextPurge == purge_call

SpecPurge == InitPurge /\ [][NextPurge]_vars

\* ------------------------------------------- safe_send_keys called on its own
\* Default timeout of safe_send_keys, in seconds.
DefaultKeysTimeout == 10

KeysTimeouts == {DefaultKeysTimeout, PageLoadTimeout}

\* The texts the program types: the e-mail, the password, the query.
KeyTexts == {"email", "password", "jql"}

\* The calls made on the element, in the order of the source.
ElementCalls == {"click", "select_all", "delete", "text"}

\* A call: its arguments and what the page does during it. `visible`: the
\* element becomes visible within the timeout. `failAt`: the call on the
\* element that raises `err`, if any.
KeysInputs ==
    [clear_first : BOOLEAN, timeout : KeysTimeouts, keys : KeyTexts,
     visible : BOOLEAN, failAt : ElementCalls \cup {"none"},
     err : {"WebDriverException", "TimeoutException"}]

InitKeys ==
    /\ OrchUnused
    /\ pc = "keys_idle"
    /\ dirExists = TRUE
    /\ dir = {}
    /\ now = Clock0930
    /\ platform = "posix"
    /\ FsIdle
    /\ windows = <<1>>
    /\ focus = 1
    /\ TabIdle
    /\ ProbeIdle

keysRest == <<orchVars, fsVars, tabVars, cfgVars, exitCode, waitLog, stIn, st>>

\* A caller invokes safe_send_keys.
keys_call ==
    /\ pc \in {"keys_idle", "keys_done"}
    /\ keysIn.n < MaxCalls
    /\ \E i \in KeysInputs :
         keysIn' = [clear_first |-> i.clear_first, timeout |-> i.timeout,
                    keys |-> i.keys, visible |-> i.visible, failAt |-> i.failAt,
                    err |-> i.err, n |-> keysIn.n + 1]
    /\ keysOut' = NoKeysOut
    /\ pc' = "keys_wait"
    /\ UNCHANGED keysRest

\* The call `c` on the element: it is recorded; it raises when the page
\* makes it fail, and the exception leaves safe_send_keys (a
\* TimeoutException through the except clause, which re-raises it).
ElementCall(c, next) ==
    /\ keysOut' = [keysOut EXCEPT
                     !.events = Append(@, c),
                     !.typed = IF c = "text" /\ keysIn.failAt # c
                               THEN keysIn.keys ELSE @,
                     !.raised = IF keysIn.failAt = c THEN keysIn.err ELSE @]
    /\ pc' = IF keysIn.failAt = c THEN "keys_done" ELSE next

\* wait.until(visibility_of_element_located) as it would be if the wait
\* were made again, once, after a timeout.
keys_wait_again ==
    /\ pc = "keys_wait"
    /\ IF keysIn.visible
       THEN /\ keysOut' = [keysOut EXCEPT !.events = Append(@, "wait")]
            /\ pc' = "keys_click"
       ELSE IF keysOut.events = <<>>
            THEN /\ keysOut' = [keysOut EXCEPT !.events = Append(@, "wait"),
                                               !.blocked = @ + keysIn.timeout]
                 /\ pc' = "keys_wait"
            ELSE /\ keysOut' = [keysOut EXCEPT !.events = Append(@, "wait"),
                                               !.blocked = @ + keysIn.timeout,
                                               !.raised = "TimeoutException"]
                 /\ pc' = "keys_done"
    /\ UNCHANGED <<keysIn, keysRest>>

\* wait.until(visibility_of_element_located): one wait of `timeout` seconds;
\* its TimeoutException is logged and re-raised.
keys_wait ==
    /\ pc = "keys_wait"
    /\ IF keysIn.visible
       THEN /\ keysOut' = [keysOut EXCEPT !.events = Append(@, "wait")]
            /\ pc' = "keys_click"
       ELSE /\ keysOut' = [keysOut EXCEPT !.events = Append(@, "wait"),
                                          !.blocked = @ + keysIn.timeout,
                                          !.raised = "TimeoutException"]
            /\ pc' = "keys_done"
    /\ UNCHANGED <<keysIn, keysRest>>

\* element.click(); time.sleep(0.2); `if clear_first:`
keys_click ==
    /\ pc = "keys_click"
    /\ ElementCall("click", IF keysIn.clear_first THEN "keys_select_all"
                                                  ELSE "keys_text")
    /\ UNCHANGED <<keysIn, keysRest>>

\* element.send_keys(Keys.CONTROL + "a")
keys_select_all ==
    /\ pc = "keys_select_all"
    /\ ElementCall("select_all", "keys_delete")
    /\ UNCHANGED <<keysIn, keysRest>>

\* element.send_keys(Keys.DELETE)
keys_delete ==
    /\ pc = "keys_delete"
    /\ ElementCall("delete", "keys_text")
    /\ UNCHANGED <<keysIn, keysRest>>

\* element.send_keys(keys), then the function returns.
keys_text ==
    /\ pc = "keys_text"
    /\ ElementCall("text", "keys_done")
    /\ UNCHANGED <<keysIn, keysRest>>

NextKeys ==
    \/ keys_call
    \/ keys_wait
    \/ keys_click
    \/ keys_select_all
    \/ keys_delete
    \/ keys_text

SpecKeys == InitKeys /\ [][NextKeys]_vars

\* ------------------------------------- wait_for_file_stable called on its own
\* Time is counted in polling periods: time.sleep(0.5) makes two per second.
TicksPerSecond == 2

\* Default stable_duration, in seconds.
DefaultStableDuration == 2

StableDurations == {1, DefaultStableDuration}

\* The largest max_wait of a call, in seconds.
MaxWaitSeconds == 3

\* What one poll finds: no file ("absent"), a file that is gone when stat()
\* is reached ("vanished"), or a file of some size.
FileSizes == 0..2

FileSamples == {"absent", "vanished"} \cup {"size"}

\* The size recorded for a poll that read none.
NoSize == -1

InitStable ==
    /\ OrchUnused
    /\ pc = "st_idle"
    /\ dirExists = TRUE
    /\ dir = {}
    /\ now = Clock0930
    /\ platform = "posix"
    /\ FsIdle
    /\ windows = <<1>>
    /\ focus = 1
    /\ TabIdle
    /\ ProbeIdle

stRest == <<orchVars, fsVars, tabVars, cfgVars, exitCode, waitLog, keysIn, keysOut>>

\* A caller invokes wait_for_file_stable: start_time is taken (time 0 of
\* the call), last_size = 0, stable_start = None.
stable_call ==
    /\ pc \in {"st_idle", "st_done"}
    /\ stIn.n < MaxCalls
    /\ \E sd \in StableDurations, mw \in 1..MaxWaitSeconds :
         stIn' = [stable_duration |-> sd, max_wait |-> mw, n |-> stIn.n + 1]
    /\ st' = NoSt
    /\ pc' = "st_loop"
    /\ UNCHANGED stRest

\* The body of the loop for a file that exists with size `current_size`,
\* at time st.t: the new locals and the value returned, if any.
stable_sample(current_size) ==
    IF current_size = st.last_size /\ current_size > 0
    THEN IF st.stable_start = NoTime
         THEN [st EXCEPT !.stable_start = st.t]
         ELSE IF st.t - st.stable_start >= stIn.stable_duration * TicksPerSecond
              THEN [st EXCEPT !.ret = "True"]
              ELSE st
    ELSE [st EXCEPT !.stable_start = NoTime, !.last_size = current_size]

\* One evaluation of the loop condition and, when it holds, one pass of
\* the body followed by time.sleep(0.5), which takes one period or, on a
\* loaded machine, two. When the file does not exist the body does nothing;
\* FileNotFoundError of stat() is caught nowhere.
stable_poll ==
    /\ pc = "st_loop"
    /\ IF st.t >= stIn.max_wait * TicksPerSecond
       THEN /\ st' = [st EXCEPT !.ret = "False"]
            /\ pc' = "st_done"
       ELSE \E f \in FileSamples, size \in FileSizes, slept \in 1..2 :
              LET seen == [t |-> st.t,
                           size |-> IF f = "size" THEN size ELSE NoSize]
                  body == CASE f = "absent"   -> st
                            [] f = "vanished" -> [st EXCEPT !.ret = "FileNotFoundError"]
                            [] OTHER          -> stable_sample(size)
              IN  /\ st' = [body EXCEPT
                              !.samples = Append(@, seen),
                              !.t = IF body.ret = "none" THEN @ + slept ELSE @]
                  /\ pc' = IF body.ret = "none" THEN "st_loop" ELSE "st_done"
    /\ UNCHANGED <<stIn, stRest>>

NextStable ==
    \/ stable_call
    \/ stable_poll

SpecStable == InitStable /\ [][NextStable]_vars

\* ================================================================ claims
\* The run has handed its result to the caller.
Returned == pc = "idle" /\ result # "none"

\* The run reported a failure (False, or a propagated exception).
ReportedFailure == Returned /\ result \in {"False", "raise"}

StepsOf(t) == {t[i] : i \in DOMAIN t}

IsPrefix(p, q) == Len(p) <= Len(q) /\ \A i \in DOMAIN p : p[i] = q[i]

\* Step `s` was started and `n` is what came next: the step that follows it
\* in the trace or, when it is the last one, the position of the run.
FollowedBy(s, n) ==
    \E i \in DOMAIN trace :
        /\ trace[i] = s
        /\ IF i = Len(trace) THEN pc = n ELSE trace[i + 1] = n

\* Every exception raised in step `s` ended the sequence there.
LastStepIs(s) == trace # <<>> /\ trace[Len(trace)] = s

\* C1: on every exit path of a run, every browser session created during
\* the run has had quit() called on it before the run returns or raises.
C1_AllSessionsQuit ==
    Returned => \A d \in (base + 1)..created : d \in quitCalled

\* C2: when a workflow step fails with a session open, a screenshot is
\* attempted and then the session is released, both before the failure is
\* reported to the caller.
C2_CaptureBeforeRelease ==
    (ReportedFailure /\ wfDriver > base) =>
        \E i, j \in DOMAIN cleanupLog :
            /\ i < j
            /\ cleanupLog[i] = "screenshot"
            /\ cleanupLog[j] = "quit"

\* The first k-1 attempts of the call hit a stale element.
StaleUntil(k) == \A i \in 1..(k - 1) : clickIn.outs[i] = "stale"

\* C3: with retries = r, k-1 stale attempts followed by a successful
\* attempt k <= r give success after exactly k attempts, with k
\* resolutions of the locator and the click dispatched on the handle
\* resolved by attempt k; r stale attempts give ClickFailed after exactly r
\* attempts.
C3_StaleRetried ==
    pc = "click_done" =>
        /\ \A k \in 1..clickIn.retries :
              (StaleUntil(k) /\ clickIn.outs[k] = "ok") =>
                  /\ lastClick.result = "ok"
                  /\ lastClick.attempts = k
                  /\ Len(lastClick.resolved) = k
                  /\ lastClick.clicked = lastClick.resolved[k]
                  /\ \A i \in 1..(k - 1) :
                        lastClick.resolved[i] # lastClick.clicked
        /\ StaleUntil(clickIn.retries + 1) =>
              /\ lastClick.result = "ClickFailed"
              /\ lastClick.attempts = clickIn.retries
              /\ lastClick.clicked = 0

C3_Witness ==
    /\ pc = "click_done"
    /\ clickIn.retries = 3
    /\ clickIn.outs = <<"stale", "stale", "ok">>
    /\ lastClick.result = "ok"
    /\ lastClick.attempts = 3

\* C4: a timeout of the wait for Clickable, on the first attempt or after
\* stale attempts, ends safe_click at once with the timeout error: no
\* further attempt or wait is made and no click is dispatched; exactly one
\* wait ran for the whole `timeout`.
C4_TimeoutNotRetried ==
    pc = "click_done" =>
        \A k \in 1..clickIn.retries :
            (StaleUntil(k) /\ clickIn.outs[k] = "timeout") =>
                /\ lastClick.result = "TimeoutException"
                /\ lastClick.attempts = k
                /\ lastClick.waits = k
                /\ lastClick.blocked = clickIn.timeout
                /\ lastClick.clicked = 0
                /\ Len(lastClick.resolved) = k - 1

C4_Witness ==
    /\ pc = "click_done"
    /\ clickIn.retries = 3
    /\ clickIn.outs[1] = "timeout"
    /\ clickIn.outs[2] = "ok"
    /\ lastClick.result = "TimeoutException"
    /\ lastClick.waits = 1

\* The failures that the probes define as success.
Tolerated(e) ==
    e.err = "TimeoutException" /\ e.step \in {"mfa_probe", "jql_mode"}

\* C5: apart from a timeout of the MFA probe or of the mode-toggle probe,
\* any failure of any step aborts the run at once: the failing step is the
\* last step executed.
C5_NoCatchAndContinue ==
    \A i \in DOMAIN errors :
        ~Tolerated(errors[i]) => LastStepIs(errors[i].step)

\* C6: when the MFA probe times out, no push click is dispatched, the MFA
\* step raises nothing and the dashboard wait is what comes next.
C6_MfaAbsenceIsSuccess ==
    mfa = "absent" =>
        /\ "mfa_push" \notin StepsOf(trace)
        /\ FollowedBy("mfa_probe", "dashboard")
        /\ (pc = "dashboard" => loginResult = "none" /\ exc = "none")

C6_Witness ==
    /\ mfa = "absent"
    /\ loginResult = "True"
    /\ "dashboard" \in StepsOf(trace)

AuthOrder == <<"nav_idp", "email", "continue1", "password", "continue2",
               "mfa_probe", "dashboard", "handoff_search", "handoff_click",
               "handoff_tab">>

HandoffSteps == {"handoff_search", "handoff_click", "handoff_tab"}

MandatoryLoginSteps == {"email", "continue1", "password", "continue2",
                        "dashboard"}

IsAuthStep(s) == s \in StepsOf(AuthOrder)

\* C7: the authentication steps run only in the order of AuthOrder, each
\* after all its predecessors completed; once a mandatory step fails, login
\* returns False without raising and no later authentication step, in
\* particular no hand-off step, is executed.
C7_AuthOrderAndAbsorbingFailure ==
    /\ IsPrefix(SelectSeq(trace, IsAuthStep), AuthOrder)
    /\ \A i \in DOMAIN errors :
          errors[i].step \in MandatoryLoginSteps =>
              /\ loginResult = "False"
              /\ LastStepIs(errors[i].step)
    /\ loginResult = "False" =>
          /\ StepsOf(trace) \cap HandoffSteps = {}
          /\ pc \in {"login_return", "except", "cleanup", "return", "idle",
                    "exited"}
          /\ (pc = "login_return" => exc = "none")

C7_Witness ==
    /\ loginResult = "False"
    /\ Returned
    /\ \E i \in DOMAIN errors : errors[i].step = "password"

ExportOrder == <<"nav_search", "jql_mode", "jql_type", "jql_search",
                 "export_menu", "export_csv", "download">>

IsExportStep(s) == s \in StepsOf(ExportOrder)

Count(s, t) == Cardinality({i \in DOMAIN t : t[i] = s})

DashboardTimedOut ==
    \E i \in DOMAIN errors :
        errors[i] = [step |-> "dashboard", err |-> "TimeoutException"]

\* C8: a run attempts the login at most once; after a timeout of the
\* dashboard wait the login has failed, the query/export sequence is never
\* started and the run reports failure.
C8_DashboardTimeoutFatal ==
    /\ \A s \in StepsOf(AuthOrder) : Count(s, trace) <= 1
    /\ DashboardTimedOut =>
          /\ loginResult = "False"
          /\ SelectSeq(trace, IsExportStep) = <<>>
          /\ exportResult = "none"
          /\ (Returned => result \in {"False", "raise"})

C8_Witness == DashboardTimedOut /\ ReportedFailure

FatalExportSteps == {"jql_type", "jql_search", "export_menu", "export_csv",
                     "download"}

\* C9: the query/export steps run only in the order of ExportOrder; a
\* failure in query submission, export trigger or download handling makes
\* execute_jql_and_export raise, with the failing step the last one executed
\* and no artifact path returned.
C9_ExportOrderAndAbort ==
    /\ IsPrefix(SelectSeq(trace, IsExportStep), ExportOrder)
    /\ \A i \in DOMAIN errors :
          errors[i].step \in FatalExportSteps =>
              /\ exportResult = "raised"
              /\ exc # "none"
              /\ LastStepIs(errors[i].step)
              /\ pending \notin {"True", "path"}
              /\ result \notin {"True", "path"}

C9_Witness ==
    /\ ReportedFailure
    /\ \E i \in DOMAIN errors : errors[i].step = "download"

\* C10: when the mode-switch click times out, the query-mode step completes
\* without error and query submission is what comes next.
C10_ToggleTimeoutTolerated ==
    jqlMode = "TimeoutException" =>
        /\ FollowedBy("jql_mode", "jql_type")
        /\ (pc = "jql_type" => exc = "none" /\ exportResult = "none")

C10_Witness ==
    /\ jqlMode = "TimeoutException"
    /\ "jql_search" \in StepsOf(trace)

\* ------------------------------------------------- download detector
\* The step is a call of find_and_rename_latest_file.
DetectorStep == detIn'.n = detIn.n + 1

HasName(d, name) == \E f \in d : f.name = name

\* Entry f of directory d is a regular file without the in-progress suffix
\* and no such file of d is more recent.
LatestComplete(d, f) ==
    /\ f \in d
    /\ f.isFile
    /\ ~EndsWith(f.name, DotCrdownload)
    /\ \A g \in d : (g.isFile /\ ~EndsWith(g.name, DotCrdownload))
                       => g.mtime <= f.mtime

\* C11: the detector never selects a file with the .crdownload suffix, even
\* when it is the most recent; it selects a regular file of the greatest
\* modification time among the others, and no other file is renamed: every
\* other entry keeps its name (or was the target of the rename) and the only
\* new entry is the selected file under its new name.
C11_SelectsLatestComplete ==
    [][(DetectorStep /\ detCause'.what # "nofile") =>
          \E f \in dir :
              /\ f.name = detCause'.picked
              /\ LatestComplete(dir, f)
              /\ \A g \in dir \ {f} : g \in dir' \/ g.name = detCause'.target
              /\ dir' \ dir \subseteq {[f EXCEPT !.name = detCause'.target]}
      ]_vars

C11_Witness ==
    /\ detCause.what = "renamed"
    /\ detCause.picked = NameA
    /\ [name |-> NameA, mtime |-> 100, isFile |-> TRUE] \in dir0
    /\ [name |-> NameB, mtime |-> 200, isFile |-> TRUE] \in dir0
    /\ [name |-> NameSub, mtime |-> 300, isFile |-> FALSE] \in dir0

\* C13: a file system error during the rename is surfaced to the caller as
\* a failure of its own: an exception reaches the caller, so that what the
\* caller gets differs from what it gets when no file was found.
C13_RenameErrorSurfaced ==
    detCause.what = "rename_error" =>
        /\ detOut.raised # "none"
        /\ detOut # [ret |-> NoPath, raised |-> "none"]

DigitVal(c) == CHOOSE v \in 0..9 : DigitChars[v + 1] = c

Num2(str, i) == 10 * DigitVal(str[i]) + DigitVal(str[i + 1])

\* `name` is prefix, "_", the clock t written yyyy-MM-dd_HH-mm-ss, then ext.
IsArtifactName(name, prefix, t, ext) ==
    LET p  == Len(prefix)
        ts == SubSeq(name, p + 2, p + 20)
    IN  /\ Len(name) = p + 20 + Len(ext)
        /\ SubSeq(name, 1, p) = prefix
        /\ name[p + 1] = "_"
        /\ ts[5] = "-" /\ ts[8] = "-" /\ ts[11] = "_"
        /\ ts[14] = "-" /\ ts[17] = "-"
        /\ 100 * Num2(ts, 1) + Num2(ts, 3) = 2024
        /\ Num2(ts, 6) = 1
        /\ Num2(ts, 9) = 1 + (t \div 86400)
        /\ 3600 * Num2(ts, 12) + 60 * Num2(ts, 15) + Num2(ts, 18) = t % 86400
        /\ Num2(ts, 15) < 60 /\ Num2(ts, 18) < 60
        /\ SubSeq(name, p + 21, Len(name)) = ext

\* The extension of the names the directories are built from; any other
\* name is an earlier artifact, which kept the extension of its file.
ExtOf(name) ==
    CASE name \in {NameA, NameNew} -> <<".", "c", "s", "v">>
      [] name = NameB              -> DotCrdownload
      [] name \in {NameD, NameSub} -> <<>>
      [] OTHER -> IF name[Len(name)] = "v" THEN <<".", "c", "s", "v">>
                  ELSE <<>>

JiraReport0930 ==
    <<"J", "i", "r", "a", "_", "R", "e", "p", "o", "r", "t", "_",
      "2", "0", "2", "4", "-", "0", "1", "-", "1", "5", "_",
      "0", "9", "-", "3", "0", "-", "0", "0", ".", "c", "s", "v">>

\* The name returned by a successful call is {prefix}_{timestamp}{ext} with
\* the clock at rename time and the extension of the selected file, and an
\* entry of that name is in the directory.
RenamedNameFormat ==
    [][(DetectorStep /\ detCause'.what = "renamed") =>
          /\ detOut'.ret = detCause'.target
          /\ IsArtifactName(detOut'.ret, detIn'.prefix, now',
                            ExtOf(detCause'.picked))
          /\ ((detIn'.prefix = JiraReport /\ now' = Clock0930
                  /\ ExtOf(detCause'.picked) = <<".", "c", "s", "v">>)
                => detOut'.ret = JiraReport0930)
          /\ HasName(dir', detOut'.ret)
      ]_vars

\* C14: on success the returned name is {prefix}_{timestamp}{ext} (clock at
\* rename time, extension of the selected file; Jira_Report, .csv and
\* 2024-01-15T09:30:00 give Jira_Report_2024-01-15_09-30-00.csv), and
\* afterwards the file exists under the new name and no longer under the old
\* one.
C14_RenamedArtifact ==
    [][(DetectorStep /\ detCause'.what = "renamed") =>
          /\ IsArtifactName(detOut'.ret, detIn'.prefix, now',
                            ExtOf(detCause'.picked))
          /\ ((detIn'.prefix = JiraReport /\ now' = Clock0930
                  /\ ExtOf(detCause'.picked) = <<".", "c", "s", "v">>)
                => detOut'.ret = JiraReport0930)
          /\ HasName(dir', detOut'.ret)
          /\ ~HasName(dir', detCause'.picked)
      ]_vars

\* C15: over any sequence of calls with the same prefix, a rename never
\* targets a name that another file of the directory already bears.
C15_TargetNameUnused ==
    detCause.what \in {"renamed", "rename_error"} =>
        \A g \in dir0 :
            g.name = detCause.target => g.name = detCause.picked

\* No finished regular file in directory d: nothing but subdirectories and
\* downloads in progress.
NoCompleteFile(d) ==
    \A f \in d : ~f.isFile \/ EndsWith(f.name, DotCrdownload)

\* C12: when the download directory is missing or holds no regular file
\* besides in-progress ones, the detector returns no path, the directory is
\* left as the detector found it, and the export fails: it raises, no
\* artifact path is returned and the run does not report success.
C12_NoFileFailsExport ==
    (LastStepIs("download") /\ (~dirExists \/ NoCompleteFile(dir0))) =>
        /\ detCause.what = "nofile"
        /\ detOut.ret = NoPath
        /\ dir = dir0
        /\ exportResult = "raised"
        /\ exc = "Exception"
        /\ pending \notin {"True", "path"}
        /\ result \notin {"True", "path"}

\* The run failed at the download step with only a download in progress in
\* the directory.
C12_Witness ==
    /\ ReportedFailure
    /\ LastStepIs("download")
    /\ dirExists
    /\ \E f \in dir0 : EndsWith(f.name, DotCrdownload)
    /\ NoCompleteFile(dir0)

\* The run failed at the download step with the directory gone.
C12_WitnessNoDir ==
    /\ ReportedFailure
    /\ LastStepIs("download")
    /\ ~dirExists

\* -------------------------------------------------------- configuration
\* The required variables that are unset or empty.
Absent == {RequiredVars[i] : i \in {k \in DOMAIN RequiredVars :
                                       config[k] \in {"None", ""}}}

\* C16: once the workflow object has been constructed or has failed to be,
\* validation has failed exactly when some required variable is unset or
\* empty; the error names every such variable, each once, and no other; and
\* with a failed validation there is no run: no browser session was created
\* and no step was taken.
C16_ValidationEnumeratesAbsent ==
    /\ pc # "construct" =>
          /\ validation.raised <=> Absent # {}
          /\ StepsOf(validation.missing) = Absent
          /\ Len(validation.missing) = Cardinality(Absent)
          /\ validation.raised <=> pc = "config_error"
    /\ pc = "construct" => created = 0 /\ trace = <<>>
    /\ pc = "config_error" => created = 0 /\ trace = <<>> /\ mode = "none"
    /\ created > 0 => ~validation.raised /\ Absent = {}

\* Validation failed with the password unset and the query empty.
C16_Witness ==
    /\ pc = "config_error"
    /\ config = <<"value", "None", "value", "">>
    /\ validation.missing = <<"JC_PASSWORD", "JQL_QUERY">>

\* A session was created under a configuration that passed validation.
C16_WitnessValid ==
    /\ created > 0
    /\ ~validation.raised

\* ------------------------------------------------------------ exit code
\* The steps of login and handoff all completed, the export returned a path
\* and the file was there, and nothing was raised, cancellation included.
RunSucceeded ==
    /\ loginResult = "True"
    /\ FollowedBy("handoff_tab", "nav_search") \/ "nav_search" \in StepsOf(trace)
    /\ exportResult = "path"
    /\ errors = <<>> \/ \A i \in DOMAIN errors : Tolerated(errors[i])
    /\ exc = "none"

\* C17: when the process has ended, its exit code is 0 if the run that was
\* selected succeeded (login, handoff and export, with an artifact file) and
\* 1 otherwise: a failed step, an exception that left the run, a
\* cancellation, or a configuration that failed validation.
C17_ExitCode ==
    /\ pc = "exited" =>
          /\ exitCode \in {0, 1}
          /\ exitCode = 0 <=> RunSucceeded
          /\ exc # "none" => exitCode = 1
    /\ pc = "config_error" => exitCode = 1
    /\ pc \notin {"exited", "config_error"} => exitCode = -1

\* The exit code against what the run handed to main(): 0 exactly when login
\* returned True, the handoff was made, the export returned a path and
\* nothing was raised.
ExitFollowsOutcome ==
    /\ pc = "exited" =>
          /\ exitCode \in {0, 1}
          /\ exitCode = 0 <=> (/\ loginResult = "True"
                               /\ "handoff_tab" \in StepsOf(trace)
                               /\ exportResult = "path"
                               /\ exc = "none")
    /\ pc = "config_error" => exitCode = 1

\* The process ended with 1 because the user cancelled during the export.
C17_Witness ==
    /\ pc = "exited"
    /\ exitCode = 1
    /\ exc = "KeyboardInterrupt"
    /\ "export_menu" \in StepsOf(trace)

C17_WitnessSuccess ==
    /\ pc = "exited"
    /\ exitCode = 0
    /\ mode = "export-only"

\* ------------------------------------------------------------ run modes
\* C18: a run in export-only mode takes no step of the identity-provider
\* login; a full run that exports has logged in first.
C18_ExportOnlySkipsLogin ==
    /\ mode = "export-only" =>
          \A i \in DOMAIN trace : trace[i] \notin StepsOf(AuthOrder)
    /\ (mode = "full" /\ "nav_search" \in StepsOf(trace)) =>
          loginResult = "True"

\* ---------------------------------------------------- switch_to_new_tab
\* C19: when switch_to_new_tab returns, the last count it saw is one more
\* than the count at the call, whatever that was, the focused window is the
\* one opened last, it was not open at the call, and its title is what is
\* returned; when it raises, the last count it saw was not above the count
\* at the call and the focus is where it was.
C19_WaitsForOneMoreWindow ==
    pc = "tab_done" =>
        IF tabOut.raised = "none"
        THEN /\ tabOut.count = Len(tabIn.handles) + 1
             /\ focus = windows[tabOut.count]
             /\ focus \notin StepsOf(tabIn.handles)
             /\ tabOut.title = focus
        ELSE /\ tabOut.raised = "TimeoutException"
             /\ tabOut.count <= Len(tabIn.handles)
             /\ focus = tabIn.focus

\* -------------------------------------------------------------- purge
\* The regular files of the directory before the call that match the
\* pattern and are strictly older than max_age_days.
Eligible ==
    {f \in dir0 :
        /\ f.isFile
        /\ purgeIn.pattern = GlobCsv => EndsWith(f.name, <<".", "c", "s", "v">>)
        /\ now - f.mtime > purgeIn.max_age_days * DaySeconds}

\* C20: the purge deletes no file but the regular files that match the
\* pattern and are strictly older than max_age_days, all of them unless the
\* file system refused, and the count it returns is the number of files it
\* deleted.
C20_PurgeExactAndCounted ==
    pc = "purge_done" =>
        /\ dir0 \ dir = purgeOut.deleted
        /\ purgeOut.deleted \subseteq Eligible
        /\ ~purgeOut.error => purgeOut.deleted = Eligible
        /\ purgeOut.count = Cardinality(purgeOut.deleted)

\* The same without the count: which files go and which stay.
PurgeDeletesEligibleOnly ==
    pc = "purge_done" =>
        /\ dir0 \ dir = purgeOut.deleted
        /\ purgeOut.deleted \subseteq Eligible
        /\ ~purgeOut.error => purgeOut.deleted = Eligible

C21_WitnessPurgeError ==
    /\ Returned
    /\ result = "True"
    /\ purgeOut.error

\* ------------------------------------------------------------- sessions
\* The sessions created so far on which quit() has not been called.
NotYetQuit == (1..created) \ quitCalled

\* C22: over any sequence of runs on a workflow object, at most one session
\* has been created and not yet quit.
C22_AtMostOneLiveSession ==
    Cardinality(NotYetQuit) <= 1

\* wait_for_page_load ran to its timeout during step `s`.
LateAt(s) ==
    \E i \in DOMAIN waitLog :
        waitLog[i] = [step |-> s, timeout |-> PageLoadTimeout, signal |-> "timeout"]

ErrorAt(s) == \E i \in DOMAIN errors : errors[i].step = s

\* C23: wait_for_page_load is best-effort: when the page is not complete
\* within the timeout it returns normally, no error is recorded for the
\* navigation, and the step that follows is still executed: credential
\* entry after the navigation to the provider, query-mode assurance after
\* the navigation to the search page.
C23_PageLoadBestEffort ==
    /\ LateAt("nav_idp") =>
          /\ ~ErrorAt("nav_idp")
          /\ FollowedBy("nav_idp", "email")
          /\ (Returned => "email" \in StepsOf(trace))
    /\ LateAt("nav_search") =>
          /\ ~ErrorAt("nav_search")
          /\ FollowedBy("nav_search", "jql_mode")
          /\ (Returned => "jql_mode" \in StepsOf(trace))

C23_Witness ==
    /\ LateAt("nav_idp")
    /\ LateAt("nav_search")
    /\ Returned
    /\ result = "True"

\* -------------------------------------------------------- safe_send_keys
\* The calls a complete safe_send_keys makes, in order.
KeysSequence(clear_first) ==
    IF clear_first
    THEN <<"wait", "click", "select_all", "delete", "text">>
    ELSE <<"wait", "click", "text">>

KeysReturned == pc = "keys_done"

\* C24: safe_send_keys waits until the element is visible, clicks it,
\* selects all and deletes only when clear_first is set, then types the
\* text, in this order. When the element never becomes visible within the
\* timeout the call fails with the TimeoutException after one wait of
\* `timeout` seconds, without a retry and without any call on the element.
C24_SendKeysSequence ==
    /\ IsPrefix(keysOut.events, KeysSequence(keysIn.clear_first))
    /\ (KeysReturned /\ keysOut.raised = "none") =>
          /\ keysOut.events = KeysSequence(keysIn.clear_first)
          /\ keysOut.typed = keysIn.keys
    /\ (KeysReturned /\ ~keysIn.visible) =>
          /\ keysOut.raised = "TimeoutException"
          /\ keysOut.events = <<"wait">>
          /\ keysOut.blocked = keysIn.timeout
          /\ keysOut.typed = ""

C24_Witness ==
    /\ KeysReturned
    /\ ~keysIn.visible
    /\ keysIn.clear_first
    /\ keysOut.raised = "TimeoutException"

C24_WitnessTyped ==
    /\ KeysReturned
    /\ ~keysIn.clear_first
    /\ keysOut.raised = "none"
    /\ keysOut.events = <<"wait", "click", "text">>

C24_WitnessCleared ==
    /\ KeysReturned
    /\ keysIn.clear_first
    /\ keysOut.typed = keysIn.keys
    /\ Len(keysOut.events) = 5

\* ------------------------------------------------------- stability probe
StableReturned == pc = "st_done"

\* From poll `i` to the last poll, every poll read the same non-zero size,
\* and these polls span at least stable_duration.
QuietSince(i) ==
    LET last == st.samples[Len(st.samples)]
    IN  /\ \A j \in i..Len(st.samples) :
              st.samples[j].size = last.size /\ st.samples[j].size > 0
        /\ last.t - st.samples[i].t >= stIn.stable_duration * TicksPerSecond

\* The polls between which the file did not exist, or vanished.
SawNoFile == \E j \in DOMAIN st.samples : st.samples[j].size = NoSize

\* C25: the probe returns True only if every poll over an interval of at
\* least stable_duration, up to the return, read the same non-zero size;
\* it returns False only once max_wait has elapsed; and it always returns
\* one of the two.
C25_StableOnlyAfterQuietInterval ==
    /\ st.ret = "True" => \E i \in DOMAIN st.samples : QuietSince(i)
    /\ st.ret = "False" => st.t >= stIn.max_wait * TicksPerSecond
    /\ StableReturned => st.ret \in {"True", "False"}

\* The same, for the calls during which the file existed at every poll.
StableWhenPresent == ~SawNoFile => C25_StableOnlyAfterQuietInterval

\* The probe answered True although the file was missing at a poll after
\* the interval had started.
StableAcrossGap ==
    /\ st.ret = "True"
    /\ \E j \in DOMAIN st.samples :
          /\ st.samples[j].size = NoSize
          /\ \E i \in 1..(j - 1) : st.samples[i].size > 0

\* --------------------------------------------------------------- MFA push
WaitsOf(s) == {waitLog[i] : i \in {j \in DOMAIN waitLog : waitLog[j].step = s}}

\* C26: when the probe finds the push button, one push click is dispatched,
\* before the dashboard wait begins; the dashboard wait has the budget
\* MFA_TIMEOUT, which is longer than the budget of the probe; and after a
\* push the login succeeds only if the dashboard wait found the dashboard.
C26_OnePushThenDashboardWait ==
    /\ mfa = "pushed" =>
          /\ Count("mfa_push", trace) = 1
          /\ FollowedBy("mfa_probe", "mfa_push")
          /\ FollowedBy("mfa_push", "dashboard")
          /\ Count("dashboard", trace) <= 1
          /\ WaitsOf("mfa_probe") =
                {[step |-> "mfa_probe", timeout |-> MfaProbeTimeout, signal |-> "found"]}
          /\ loginResult = "True" =>
                WaitsOf("dashboard") =
                  {[step |-> "dashboard", timeout |-> MFA_TIMEOUT, signal |-> "found"]}
    /\ \A w \in WaitsOf("dashboard") :
          w.timeout = MFA_TIMEOUT /\ w.timeout > MfaProbeTimeout

C26_Witness ==
    /\ mfa = "pushed"
    /\ loginResult = "True"
    /\ Returned

C26_WitnessNotApproved ==
    /\ mfa = "pushed"
    /\ loginResult = "False"
    /\ [step |-> "dashboard", timeout |-> MFA_TIMEOUT, signal |-> "timeout"]
          \in WaitsOf("dashboard")

\* ------------------------------------------------- artifact and cleanup
\* C27: when a full run returns True, the artifact exists at the path the
\* detector returned once the finalizer has released the session and purged
\* the old *.csv files: the purge never deletes the artifact of the run.
C27_ArtifactSurvivesCleanup ==
    (Returned /\ mode = "full" /\ result = "True") =>
        /\ HasName(dir, detOut.ret)
        /\ \A f \in purgeOut.deleted : f.name # detOut.ret

\* A full run returned True and its artifact is in the directory.
ArtifactKept ==
    /\ Returned /\ mode = "full" /\ result = "True"
    /\ HasName(dir, detOut.ret)

\* ------------------------------------------------- outcomes of safe_click
\* The page answers every attempt with a stale element, a timeout or a
\* clickable element.
PageBehaves ==
    \A i \in DOMAIN clickIn.outs : clickIn.outs[i] \in {"ok", "stale", "timeout"}

\* C28: whatever the page does among stale failures, timeouts and
\* successes, safe_click ends after at most `retries` attempts in one of
\* three ways: success, with one click dispatched on the element of the
\* last attempt; the timeout error, with no element resolved and no click in
\* that attempt; or ClickFailed, every attempt having been stale. With
\* retries = 0 it makes no attempt and ends with ClickFailed.
C28_ClickEndsThreeWays ==
    (pc = "click_done" /\ PageBehaves) =>
        /\ lastClick.attempts <= clickIn.retries
        /\ lastClick.waits = lastClick.attempts
        /\ lastClick.result \in {"ok", "TimeoutException", "ClickFailed"}
        /\ lastClick.result = "ok" =>
              /\ lastClick.clicked # 0
              /\ lastClick.attempts >= 1
              /\ clickIn.outs[lastClick.attempts] = "ok"
              /\ Len(lastClick.resolved) = lastClick.attempts
              /\ lastClick.clicked = lastClick.resolved[lastClick.attempts]
        /\ lastClick.result = "TimeoutException" =>
              /\ lastClick.attempts >= 1
              /\ clickIn.outs[lastClick.attempts] = "timeout"
              /\ Len(lastClick.resolved) = lastClick.attempts - 1
              /\ lastClick.clicked = 0
        /\ lastClick.result = "ClickFailed" =>
              /\ lastClick.attempts = clickIn.retries
              /\ \A i \in DOMAIN clickIn.outs : clickIn.outs[i] = "stale"
              /\ lastClick.clicked = 0
        /\ clickIn.retries = 0 =>
              /\ lastClick.attempts = 0
              /\ lastClick.waits = 0
              /\ lastClick.result = "ClickFailed"

C28_Witness ==
    /\ pc = "click_done"
    /\ clickIn.retries = 0
    /\ lastClick.result = "ClickFailed"
    /\ lastClick.resolved = <<>>

C28_WitnessInterleaved ==
    /\ pc = "click_done"
    /\ clickIn.outs = <<"stale", "timeout", "ok">>
    /\ lastClick.result = "TimeoutException"
    /\ lastClick.attempts = 2

\* ----------------------------------------------------------- close_driver
\* The finalizer is about to call close_driver (the workflow holds a driver).
ClosingDriver == pc = "cleanup" /\ wfDriver # None

\* C29: close_driver is total and idempotent. After it returns the manager
\* holds no handle, whether quit() returned or raised; what the run was
\* about to report is not replaced by an exception of quit(); called when
\* the manager holds a handle it calls quit() on that session, once; called
\* when the manager holds none (a second call, or no session set up) it
\* quits nothing.
C29_CloseDriverIdempotent ==
    /\ [][ClosingDriver =>
            /\ mgrDriver' = None
            /\ pending' = pending /\ exc' = exc
            /\ pc' = "return"
            /\ mgrDriver # None =>
                  /\ quitCalled' = quitCalled \cup {mgrDriver}
                  /\ live' \in {live, live \ {mgrDriver}}
                  /\ Count("quit", cleanupLog') = Count("quit", cleanupLog) + 1
            /\ mgrDriver = None =>
                  /\ quitCalled' = quitCalled
                  /\ live' = live
                  /\ Count("quit", cleanupLog') = Count("quit", cleanupLog)]_vars
    /\ []((pc = "return" /\ wfDriver # None) => mgrDriver = None)

\* quit() raised (the browser is still there) and the handle is dropped.
C29_Witness ==
    /\ pc = "return"
    /\ mgrDriver = None
    /\ wfDriver \in quitCalled \cap live
    /\ cleanupLog = <<"quit", "purge">>

\* close_driver was called again, the manager holding nothing since the
\* call of the run before: nothing was quit.
C29_WitnessSecondCall ==
    /\ pc = "return"
    /\ runs = 1
    /\ wfDriver \in quitCalled
    /\ mgrDriver = None
    /\ cleanupLog = <<"purge">>
====
